---- MODULE Spec2Model ----
(***************************************************************************)
(* A model of the Charm compiler and interpreter of appeal                 *)
(* (src/appeal/__init__.py): argument groups, the finalization pass, the   *)
(* duplicate-option bookkeeping of the compiler, the converter tree with   *)
(* its discretionary queue, the option-scope stack and the two-phase       *)
(* interpreter loop.                                                       *)
(*                                                                         *)
(* Conventions.  A command-line token is a sequence of one-character       *)
(* strings (<<"-","v">> is "-v"), so that startswith, partition and slices *)
(* are computed as the code computes them.  Python's None is the record    *)
(* None; a register holds None, a string token or a reference to a         *)
(* converter object of the heap.                                           *)
(***************************************************************************)
EXTENDS Integers, Sequences, FiniteSets, TLC

VARIABLES ag,          \* SpecGroup: one ArgumentGroup object
          draft, fin,  \* SpecFinalize: a draft instruction list, the finalized program
          compiler, log,     \* SpecCompile: a CharmCompiler, and what it was asked to emit
          tree,        \* SpecQueue: a heap of Converter objects
          process, compiled  \* SpecRecompile: the process-wide counters, the compilations made


----------------------------------------------------------------------------
(* Bounds of the model.                                                    *)

MaxArity == 3      \* largest minimum / maximum / count of an ArgumentGroup drawn in SpecGroup
MaxDraft == 3      \* longest draft instruction list drawn in SpecFinalize (End excluded)
MaxEmit == 4       \* most compilation steps taken in SpecCompile
MaxConverters == 4 \* most Converter objects created in SpecQueue
MaxCompiles == 2   \* most compilations made in one process in SpecRecompile

----------------------------------------------------------------------------
(* math.inf, and x + 1 on numbers that may be math.inf.                    *)

Inf == 1000
Plus1(x) == IF x = Inf THEN Inf ELSE x + 1

None == [t |-> "none"]

----------------------------------------------------------------------------
(* class ArgumentGroup                                                     *)

ArgumentGroup(minimum, maximum, id, optional) ==
    [minimum |-> minimum, maximum |-> maximum, optional |-> optional,
     id |-> id, count |-> 0, laden |-> FALSE]

satisfied_ignores_laden(g) ==
    IF g.optional /\ g.count = 0 THEN TRUE
    ELSE g.minimum <= g.count /\ g.count <= g.maximum

satisfied(g) ==
    IF g.optional /\ ~(g.laden \/ g.count # 0) THEN TRUE
    ELSE g.minimum <= g.count /\ g.count <= g.maximum

copy(g) ==
    [ArgumentGroup(g.minimum, g.maximum, g.id, g.optional)
        EXCEPT !.count = g.count, !.laden = g.laden]

\* the interpreter stores a token: group.count += 1; group.laden = True
group_consume(g) == [g EXCEPT !.count = g.count + 1, !.laden = TRUE]

\* a variant that also counts the option as a token of the group
group_mark_laden_counts(g) == [g EXCEPT !.laden = TRUE, !.count = @ + 1]

\* the interpreter invokes an option mapped in the group: laden_group.laden = True
group_mark_laden(g) == [g EXCEPT !.laden = TRUE]

----------------------------------------------------------------------------
(* Sequence helpers (del p[i], list.insert, list.index).                   *)

\* bind v to a name: F is given the value of v, computed once
Let(v, F(_)) == F(v)

\* as Let, with v computed before F is applied to it
Bind(v, F(_)) == CHOOSE y \in {F(x) : x \in {v}} : TRUE

RemoveAt(s, n) == [j \in 1..(Len(s) - 1) |-> IF j < n THEN s[j] ELSE s[j + 1]]

Last(s) == s[Len(s)]

Front(s) == SubSeq(s, 1, Len(s) - 1)

RECURSIVE Flatten(_)
Flatten(ss) == IF ss = <<>> THEN <<>> ELSE Head(ss) \o Flatten(Tail(ss))

----------------------------------------------------------------------------
(* The instructions (class CharmInstruction and its subclasses).  Converter *)
(* keys, group ids and program names are values the compiler builds; jump  *)
(* addresses are 0-based indices as in the code.                           *)

I_comment == [op |-> "comment"]
I_no_op == [op |-> "no_op"]
I_label(id) == [op |-> "label", id |-> id]
I_jump_to_label(label) == [op |-> "jump_to_label", label |-> label]
I_branch_on_o_to_label(label) == [op |-> "branch_on_o_to_label", label |-> label]
I_jump(address) == [op |-> "jump", address |-> address]
I_branch_on_o(address) == [op |-> "branch_on_o", address |-> address]
I_create_converter(parameter, key, is_command) ==
    [op |-> "create_converter", parameter |-> parameter, key |-> key, is_command |-> is_command]
I_load_converter(key) == [op |-> "load_converter", key |-> key]
I_load_o(key) == [op |-> "load_o", key |-> key]
I_append_to_args(parameter, discretionary) ==
    [op |-> "append_to_args", parameter |-> parameter, discretionary |-> discretionary]
I_add_to_kwargs(name) == [op |-> "add_to_kwargs", name |-> name]
I_map_option(option, program, key, group) ==
    [op |-> "map_option", option |-> option, program |-> program, key |-> key, group |-> group]
I_consume_argument(required, is_oparg) ==
    [op |-> "consume_argument", required |-> required, is_oparg |-> is_oparg]
I_flush_multioption == [op |-> "flush_multioption"]
I_set_group(id, minimum, maximum, optional, repeating) ==
    [op |-> "set_group", group |-> ArgumentGroup(minimum, maximum, id, optional),
     id |-> id, optional |-> optional, repeating |-> repeating]
I_end(id, name) == [op |-> "end", id |-> id, name |-> name]

(* class CharmProgram: total is the aggregate group, ArgumentGroup(minimum,  *)
(* maximum, optional=False); options maps an option to its parent option.   *)
CharmProgram(name, id, minimum, maximum, option) ==
    [name |-> name, id |-> id, option |-> option, opcodes |-> <<>>,
     options |-> <<>>,
     total |-> ArgumentGroup(minimum, maximum, [t |-> "ag", of |-> id], FALSE)]

----------------------------------------------------------------------------
(* CharmCompiler.finalize, the scan over the knitted instruction list p.   *)
(* The scan state: p, the 0-based index i, labels (label id -> index),     *)
(* jump_fixups, total, group (the 0-based index in p of the SetGroup whose  *)
(* template is being counted, -1 for None), the known converter and o      *)
(* registers, optional, and error (a configuration error, if raised).      *)
(* origin records, for each instruction still in p, its index in the list  *)
(* finalize started from: "del p[i]" deletes origin[i] along with it.       *)

KnownKey(k) == [t |-> "key", k |-> k]
KnownString == [t |-> "string value"]

FinalizeStart(p, total) ==
    [p |-> p, i |-> 0, labels |-> <<>>, jump_fixups |-> <<>>, total |-> total,
     group |-> -1, converter |-> None, o |-> None, optional |-> FALSE,
     error |-> "none", origin |-> [j \in 1..Len(p) |-> j], keep_loads |-> FALSE]

\* what the known converter and o registers become at a label
KnownAtLabel_keeps(known) == known

KnownAtLabel(known) == None

\* a load finalize found redundant, left in place and marked
Redundant(op) == [op |-> op.op, key |-> op.key, redundant |-> TRUE]
IsRedundant(op) == "redundant" \in DOMAIN op

LabelIndex(labels, id) ==
    IF \E j \in 1..Len(labels) : labels[j].id = id
    THEN (CHOOSE j \in 1..Len(labels) : labels[j].id = id)
    ELSE 0

\* "compute total and group values" for a set_group: a repeating group makes
\* the whole-program maximum math.inf
FinalizeSetGroupTotal_ignores_repeating(total, op) == total

FinalizeSetGroupTotal(total, op) ==
    IF op.repeating THEN [total EXCEPT !.maximum = Inf] ELSE total

\* a variant that counts every consume_argument into the minimum
FinalizeConsumeTotal_counts_optional(total, optional) ==
    [total EXCEPT !.minimum = @ + 1, !.maximum = Plus1(@)]

\* "compute total and group values" for a consume_argument
FinalizeConsumeTotal(total, optional) ==
    [total EXCEPT !.minimum = IF optional THEN @ ELSE @ + 1,
                  !.maximum = Plus1(@)]

FinalizeConsumeGroup(p, group) ==
    IF group < 0 THEN p
    ELSE [p EXCEPT ![group + 1].group.minimum = @ + 1,
                   ![group + 1].group.maximum = Plus1(@)]

\* one iteration of "while i < len(p)"
FinalizeStep(f) ==
    LET op == f.p[f.i + 1] IN
    IF op.op = "label" THEN
        IF LabelIndex(f.labels, op.id) # 0
        THEN [f EXCEPT !.error = "label used twice"]
        ELSE [f EXCEPT !.labels = Append(@, [id |-> op.id, at |-> f.i]),
                       !.p = RemoveAt(@, f.i + 1), !.origin = RemoveAt(@, f.i + 1),
                       !.converter = KnownAtLabel(@), !.o = KnownAtLabel(@)]
    ELSE IF op.op \in {"no_op", "comment"} THEN
        [f EXCEPT !.p = RemoveAt(@, f.i + 1), !.origin = RemoveAt(@, f.i + 1)]
    ELSE
    Let(IF op.op \in {"jump_to_label", "branch_on_o_to_label"}
        THEN [f EXCEPT !.jump_fixups = Append(@, f.i)] ELSE f, LAMBDA f1 :
    Let(IF op.op = "set_group"
        THEN [f1 EXCEPT !.group = f.i, !.optional = op.optional,
                        !.total = FinalizeSetGroupTotal(@, op)]
        ELSE f1, LAMBDA f2 :
    Let(IF op.op = "consume_argument"
        THEN [f2 EXCEPT !.total = FinalizeConsumeTotal(@, f2.optional),
                        !.p = FinalizeConsumeGroup(@, f2.group)]
        ELSE f2, LAMBDA f3 :
    IF op.op = "load_converter" /\ f3.converter = KnownKey(op.key) THEN
        IF f3.keep_loads THEN [f3 EXCEPT !.p[f.i + 1] = Redundant(op), !.i = @ + 1]
        ELSE [f3 EXCEPT !.p = RemoveAt(@, f.i + 1), !.origin = RemoveAt(@, f.i + 1)]
    ELSE IF op.op = "load_o" /\ f3.o = KnownKey(op.key) THEN
        IF f3.keep_loads THEN [f3 EXCEPT !.p[f.i + 1] = Redundant(op), !.i = @ + 1]
        ELSE [f3 EXCEPT !.p = RemoveAt(@, f.i + 1), !.origin = RemoveAt(@, f.i + 1)]
    ELSE
        [f3 EXCEPT !.converter = IF op.op = "load_converter" THEN KnownKey(op.key) ELSE @,
                   !.o = IF op.op \in {"load_o", "create_converter"} THEN KnownKey(op.key)
                         ELSE IF op.op = "consume_argument" THEN KnownString
                         ELSE @,
                   !.i = @ + 1])))

RECURSIVE FinalizeScan(_)
FinalizeScan(f) ==
    IF f.error # "none" \/ f.i >= Len(f.p) THEN f ELSE FinalizeScan(FinalizeStep(f))

\* a variant that resolves a label to the instruction after its target
RECURSIVE FinalizeFixups_past_target(_, _)
FinalizeFixups_past_target(f, n) ==
    IF f.error # "none" \/ n > Len(f.jump_fixups) THEN f
    ELSE LET i == f.jump_fixups[n]
             op == f.p[i + 1]
             j == LabelIndex(f.labels, op.label)
         IN IF j = 0 THEN [f EXCEPT !.error = "unknown label"]
            ELSE FinalizeFixups_past_target(
                   [f EXCEPT !.p[i + 1] =
                        IF op.op = "jump_to_label"
                        THEN I_jump(f.labels[j].at + 1)
                        ELSE I_branch_on_o(f.labels[j].at + 1)],
                   n + 1)

\* "now process jump fixups": each *_to_label op becomes an absolute jump
RECURSIVE FinalizeFixups(_, _)
FinalizeFixups(f, n) ==
    IF f.error # "none" \/ n > Len(f.jump_fixups) THEN f
    ELSE LET i == f.jump_fixups[n]
             op == f.p[i + 1]
             j == LabelIndex(f.labels, op.label)
         IN IF j = 0 THEN [f EXCEPT !.error = "unknown label"]
            ELSE FinalizeFixups(
                   [f EXCEPT !.p[i + 1] =
                        IF op.op = "jump_to_label"
                        THEN I_jump(f.labels[j].at)
                        ELSE I_branch_on_o(f.labels[j].at)],
                   n + 1)

\* the jump-to-jump peephole: follow a chain of jumps from one address.
\* A chain that returns to a jump never ends (the code's "while True" spins
\* and finalize does not return): fuel runs out and the result is -1.
RECURSIVE JumpTarget(_, _, _)
JumpTarget(p, address, fuel) ==
    IF address >= Len(p) THEN address
    ELSE IF p[address + 1].op # "jump" THEN address
    ELSE IF fuel = 0 THEN -1
    ELSE JumpTarget(p, p[address + 1].address, fuel - 1)

RECURSIVE FinalizeJumpToJump(_, _)
FinalizeJumpToJump(f, n) ==
    IF f.error # "none" \/ n > Len(f.jump_fixups) THEN f
    ELSE LET i == f.jump_fixups[n]
             target == JumpTarget(f.p, f.p[i + 1].address, Len(f.p))
         IN IF target < 0 THEN [f EXCEPT !.error = "never returns"]
            ELSE FinalizeJumpToJump([f EXCEPT !.p[i + 1].address = target], n + 1)

\* finalize, from the knitted list p and the program's total; keep_loads
\* leaves the redundant loads in place, marked
finalize_in(keep_loads, p, total) ==
    FinalizeJumpToJump(FinalizeFixups(FinalizeScan(
        [FinalizeStart(p, total) EXCEPT !.keep_loads = keep_loads]), 1), 1)

finalize(p, total) == finalize_in(FALSE, p, total)

----------------------------------------------------------------------------
(* Parameter descriptors: what the resolver (map_to_converter,             *)
(* get_signature, fn_database_lookup) and the parameter grouper hand to    *)
(* the compiler for one parameter.                                         *)
(*   kind  "positional" | "var_positional" | "keyword_only" | "var_keyword" *)
(*   cls   the converter class map_to_converter selects                    *)
(*   callable  the __name__ of the annotation the converter calls          *)
(*   sig   the positional and keyword-only parameters of cls's signature   *)
(*   options  the option strings registered for a keyword-only parameter   *)
(*   unseen   options registered for names that are no parameter of sig    *)
(*   first_in_group, in_required_group, required: what next(pgi) yields    *)

Param(name, kind, has_default, cls, callable, sig, options, first_in_group, in_required_group) ==
    [name |-> name, kind |-> kind, has_default |-> has_default, cls |-> cls,
     callable |-> callable, sig |-> sig, options |-> options, unseen |-> <<>>,
     default |-> IF has_default THEN [t |-> "default", of |-> name] ELSE None,
     first_in_group |-> first_in_group,
     in_required_group |-> in_required_group, required |-> in_required_group]

MultiOptionClasses == {"MultiOption"}
SimpleTypeConverterClasses == {"SimpleTypeConverterInt", "SimpleTypeConverterStr"}
ConverterClasses == {"Converter", "SimpleTypeConverterInt", "BooleanOptionConverter",
                     "Option", "MultiOption"}

\* normalize_option: a short option is its one character, a long option the
\* whole string; as token sequences <<"v">> and <<"-","-","x","y">>
denormalize_option(option) == IF Len(option) = 1 THEN <<"-">> \o option ELSE option

----------------------------------------------------------------------------
(* class CharmCompiler.  The assemblers of one argument group are kept as  *)
(* init (ag_initialize_a), options (ag_options_a, knitted after init when  *)
(* the group is cleaned up) and body (body_a): a sequence of segments, each *)
(* a plain opcode list ("ops") or a duplicate-options assembler ("dup")    *)
(* appended by reset_duplicate_options_a.  G is the process-wide state:    *)
(* CharmProgram.next_id, label_id_counter and the programs compiled.       *)

Seg(kind, ops) == [kind |-> kind, ops |-> ops]

BodyOps(body) == Flatten([j \in 1..Len(body) |-> body[j].ops])

GroupOps(g) == g.init \o (IF g.options_appended THEN g.options ELSE <<>>) \o BodyOps(g.body)

Globals0 ==
    [next_program_id |-> 1, label_id_counter |-> 0, programs |-> <<>>, keep_loads |-> FALSE]

\* the same process, with finalize told to leave the loads it would remove
\* in the program, marked redundant, so that a run executes them
GlobalsKeepingLoads == [Globals0 EXCEPT !.keep_loads = TRUE]

\* maybe_clear_a: an assembler holding a lone comment or label is cleared
lone_uninteresting(ops) == Len(ops) = 1 /\ ops[1].op \in {"comment", "label"}

LastDup(body) ==
    IF \E j \in 1..Len(body) : body[j].kind = "dup"
    THEN (CHOOSE j \in 1..Len(body) : body[j].kind = "dup" /\ \A k \in (j+1)..Len(body) : body[k].kind # "dup")
    ELSE 0

clean_up_argument_group(cs) ==
    IF cs.groups = <<>> THEN cs
    ELSE
    Let(Len(cs.groups), LAMBDA n :
    Let(IF cs.ag_options # {} THEN [cs.groups[n] EXCEPT !.options_appended = TRUE]
        ELSE cs.groups[n], LAMBDA g1 :
    Let(g1.init \o (IF g1.options_appended THEN g1.options ELSE <<>>), LAMBDA init_all :
    Let(IF lone_uninteresting(init_all)
        THEN [g1 EXCEPT !.init = <<>>, !.options = <<>>, !.options_appended = FALSE]
        ELSE g1, LAMBDA g2 :
    Let(IF lone_uninteresting(g2.options) THEN [g2 EXCEPT !.options = <<>>] ELSE g2, LAMBDA g3 :
    Let(LastDup(g3.body), LAMBDA d :
    Let(IF cs.has_dup_a /\ d # 0 /\ lone_uninteresting(g3.body[d].ops)
        THEN [g3 EXCEPT !.body[d].ops = <<>>] ELSE g3, LAMBDA g4 :
    Let(IF lone_uninteresting(BodyOps(g4.body))
        THEN [g4 EXCEPT !.body = <<Seg("ops", <<>>)>>] ELSE g4, LAMBDA g5 :
    [cs EXCEPT !.groups[n] = g5, !.ag_options = {}]))))))))

new_argument_group_ids_by_program_id(cs0, optional) ==
    Let(clean_up_argument_group(cs0), LAMBDA cs :
    Let([program |-> cs.program.id, n |-> cs.next_argument_group_id], LAMBDA group_id :
    [cs EXCEPT !.next_argument_group_id = @ + 1,
               !.group_id = group_id,
               !.groups = Append(@,
                  [init |-> <<I_comment, I_set_group(group_id, 0, 0, optional, FALSE)>>,
                   options |-> <<I_comment>>, options_appended |-> FALSE,
                   body |-> <<Seg("ops", <<I_comment>>)>>]),
               !.has_dup_a = FALSE,
               !.ag_duplicate_options = {}]))

new_argument_group(cs0, optional) ==
    Let(clean_up_argument_group(cs0), LAMBDA cs :
    Let([program |-> cs.program.name, n |-> cs.next_argument_group_id], LAMBDA group_id :
    [cs EXCEPT !.next_argument_group_id = @ + 1,
               !.group_id = group_id,
               !.groups = Append(@,
                  [init |-> <<I_comment, I_set_group(group_id, 0, 0, optional, FALSE)>>,
                   options |-> <<I_comment>>, options_appended |-> FALSE,
                   body |-> <<Seg("ops", <<I_comment>>)>>]),
               !.has_dup_a = FALSE,
               !.ag_duplicate_options = {}]))

reset_duplicate_options_a(cs) ==
    Let(Len(cs.groups), LAMBDA n :
    [cs EXCEPT !.ag_duplicate_options = {},
               !.has_dup_a = TRUE,
               !.groups[n].body =
                   (IF cs.ag_duplicate_options = {} /\ cs.has_dup_a
                    THEN [@ EXCEPT ![LastDup(cs.groups[n].body)].ops = <<>>]
                    ELSE @)
                   \o <<Seg("dup", <<I_comment>>), Seg("ops", <<>>)>>])

\* emit one instruction to ag_initialize_a / body_a
EmitInit(cs, instr) == [cs EXCEPT !.groups[Len(cs.groups)].init = Append(@, instr)]
EmitBody(cs, instr) ==
    LET n == Len(cs.groups) m == Len(cs.groups[n].body)
    IN [cs EXCEPT !.groups[n].body[m].ops = Append(@, instr)]

\* a variant that sends every definition to ag_options_a
declare_option_into_options(cs, option, program, key, group_id) ==
    [cs EXCEPT !.ag_options = @ \cup {option},
               !.groups[Len(cs.groups)].options =
                   Append(@, I_map_option(option, program, key, group_id))]

\* the body of "for option in options" in compile_options: the first
\* definition in a group goes to ag_options_a, a later one to the current
\* ag_duplicate_options_a if there is one and it does not hold the option yet
declare_option(cs, option, program, key, group_id) ==
    LET n == Len(cs.groups)
        instr == I_map_option(option, program, key, group_id)
    IN IF option \notin cs.ag_options
       THEN [cs EXCEPT !.ag_options = @ \cup {option}, !.groups[n].options = Append(@, instr)]
       ELSE IF cs.has_dup_a
       THEN IF option \in cs.ag_duplicate_options
            THEN [cs EXCEPT !.error = "multiple definitions are ambiguous"]
            ELSE [cs EXCEPT !.ag_duplicate_options = @ \cup {option},
                            !.groups[n].body[LastDup(cs.groups[n].body)].ops = Append(@, instr)]
       ELSE [cs EXCEPT !.error = "argument group initialized with multiple definitions"]

\* CharmCompiler.__init__
CharmCompiler(G, name, converter_key_prefix, option) ==
    new_argument_group(
        [program |-> CharmProgram(name, G.next_program_id, 0, 0, option),
         name |-> name,
         converter_key_prefix |-> converter_key_prefix,
         next_converter_key |-> 1,
         command_converter_key |-> None,
         option_depth |-> 0,
         groups |-> <<>>,
         has_dup_a |-> FALSE,
         ag_options |-> {},
         ag_duplicate_options |-> {},
         next_argument_group_id |-> 1,
         group_id |-> None,
         error |-> "none",
         G |-> [G EXCEPT !.next_program_id = @ + 1]],
        FALSE)

----------------------------------------------------------------------------
(* CharmCompiler.compile_parameter, compile_options, map_options, __call__ *)

ProgramName(callable, options) == [callable |-> callable, options |-> options]
OptionNames(options) == [t |-> "option", names |-> [j \in 1..Len(options) |-> denormalize_option(options[j])]]
ConverterKey(prefix, n) == [prefix |-> prefix, n |-> n]
RootKeyPrefix == [t |-> "c-"]
SubKeyPrefix(key, name) == [t |-> "sub", key |-> key, name |-> name]

\* dict.update on program.options (option -> parent option names)
DictUpdate(d, e) == e @@ d

SetRepeating(ops) ==
    [j \in 1..Len(ops) |-> IF ops[j].op = "set_group" THEN [ops[j] EXCEPT !.repeating = TRUE] ELSE ops[j]]

is_converter_discretionary(parameter) ==
    /\ (parameter.kind \in {"var_positional", "var_keyword"} \/ parameter.has_default)
    /\ parameter.cls \in ConverterClasses

\* CharmCompiler.finalize: knit the assemblers, scan, store into the program
compiler_finalize(cs0) ==
    Let(clean_up_argument_group(cs0), LAMBDA cs :
    Let(finalize_in(cs.G.keep_loads,
                    Flatten([j \in 1..Len(cs.groups) |-> GroupOps(cs.groups[j])])
                      \o <<I_end(cs.program.id, cs.name)>>,
                    cs.program.total), LAMBDA f :
    Let([cs.program EXCEPT !.opcodes = f.p, !.total = f.total], LAMBDA prog :
    [cs EXCEPT !.program = prog, !.error = f.error,
               !.G.programs = (prog.id :> prog) @@ @])))

\* the positional loop on a parameter converted by a simple type: emit
\* consume_argument and append_to_args, then reset_duplicate_options_a
compile_leaf(cs, p) ==
    reset_duplicate_options_a(
        EmitBody(EmitBody(cs, I_consume_argument(p.required, cs.option_depth > 0)),
                 I_append_to_args(p.name, FALSE)))

RECURSIVE compile_parameter(_, _, _, _, _, _, _)
RECURSIVE compile_options(_, _, _, _, _, _)
RECURSIVE nested_map_options(_, _, _, _)
RECURSIVE positional_loop(_, _, _, _, _)
RECURSIVE compiler_call(_, _, _, _, _)

\* the nested function map_options() of compile_parameter, steps 1 and 2;
\* j is the index of the next parameter of the signature
nested_map_options(cs, parameter, converter_key, j) ==
    IF cs.error # "none" THEN cs
    ELSE IF j > Len(parameter.sig) THEN
        IF parameter.unseen = <<>> THEN cs
        ELSE \* "if not var_keyword": var_keyword is a local of map_options,
             \* bound only when the signature has a VAR_KEYWORD parameter
             IF \E k \in 1..Len(parameter.sig) : parameter.sig[k].kind = "var_keyword"
             THEN LET RECURSIVE unseen_loop(_, _)
                      unseen_loop(c, k) ==
                        IF k > Len(parameter.unseen) THEN c
                        ELSE unseen_loop(
                               compile_options(c, parameter.callable, converter_key,
                                               parameter.unseen[k], parameter.unseen[k].options,
                                               c.group_id),
                               k + 1)
                  IN unseen_loop(cs, 1)
             ELSE [cs EXCEPT !.error = "UnboundLocalError"]
    ELSE LET p == parameter.sig[j] IN
         IF p.kind # "keyword_only" THEN nested_map_options(cs, parameter, converter_key, j + 1)
         ELSE IF ~p.has_default
         THEN [cs EXCEPT !.error = "keyword-only argument doesn't have a default value"]
         ELSE nested_map_options(
                compile_options(cs, parameter.callable, converter_key, p, p.options, cs.group_id),
                parameter, converter_key, j + 1)

compile_options(cs0, parent_callable, key, parameter, options, group_id) ==
    IF cs0.error # "none" THEN cs0
    ELSE
    Let(OptionNames(options), LAMBDA option_names :
    Let(ProgramName(parent_callable, option_names.names), LAMBDA program_name :
    Let([cs0 EXCEPT !.program.options =
            DictUpdate(@, [o \in {options[j] : j \in 1..Len(options)} |-> cs0.program.option])],
        LAMBDA cs1 :
    \* R is [cs, program]: the compiler afterwards and the option's program id
    Let(IF parameter.cls = "SimpleTypeConverterStr"
        THEN \* hand-coded program for an option taking one required str
             Let(cs1.G.next_program_id, LAMBDA hand_id :
             [cs |-> [cs1 EXCEPT
                        !.next_argument_group_id = @ + 1,
                        !.G.next_program_id = @ + 1,
                        !.G.programs =
                           (hand_id :>
                             [CharmProgram(program_name, hand_id, 1, 1, option_names) EXCEPT
                               !.opcodes =
                                 << I_set_group([program |-> cs1.program.name,
                                                 n |-> cs1.next_argument_group_id],
                                                1, 1, FALSE, FALSE),
                                    I_load_converter(key),
                                    I_consume_argument(TRUE, TRUE),
                                    I_add_to_kwargs(parameter.name),
                                    I_end(hand_id, program_name) >>]) @@ @],
              program |-> hand_id])
        ELSE IF parameter.cls = "illegal"
        THEN [cs |-> [cs1 EXCEPT !.error = "annotation can't be used directly"], program |-> 0]
        ELSE \* recurse on the option with a compiler of its own
             Let(compiler_call(
                    CharmCompiler(cs1.G, program_name, SubKeyPrefix(key, parameter.name),
                                  option_names),
                    parameter, TRUE, parameter.cls \in MultiOptionClasses,
                    [t |-> "add_to_kwargs", key |-> key, name |-> parameter.name]),
                 LAMBDA cc :
             [cs |-> [cs1 EXCEPT !.G = cc.G, !.error = cc.error,
                                 !.program.options = DictUpdate(@, cc.program.options)],
              program |-> cc.program.id]),
        LAMBDA R :
    LET RECURSIVE option_loop(_, _)
        option_loop(c, j) ==
            IF c.error # "none" \/ j > Len(options) THEN c
            ELSE option_loop(declare_option(c, options[j], R.program, key, group_id), j + 1)
    IN option_loop(R.cs, 1)))))

\* "for i, (parameter_name, p) in enumerate(parameters.items())" over the
\* positional parameters; L holds the locals cs, mapped_options and group
\* (the index of the argument group this call opened, 0 for None)
positional_loop(L, depth, parameter, converter_key, j) ==
    IF L.cs.error # "none" \/ j > Len(parameter.sig) THEN L
    ELSE
    Let(parameter.sig[j], LAMBDA p :
    IF p.kind \notin {"positional", "var_positional"}
    THEN positional_loop(L, depth, parameter, converter_key, j + 1)
    ELSE IF p.cls = "illegal"
    THEN [L EXCEPT !.cs.error = "annotation can't be used directly"]
    ELSE
    Let(L.cs.G.label_id_counter + 1, LAMBDA label :
    Let(p.first_in_group /\ ~p.in_required_group, LAMBDA opens :
    Let(IF p.kind = "var_positional"
        THEN EmitBody([L.cs EXCEPT !.G.label_id_counter = label], I_label(label))
        ELSE L.cs, LAMBDA cs1 :
    Let(IF opens THEN new_argument_group(cs1, TRUE) ELSE cs1, LAMBDA cs2 :
    Let(IF opens THEN Len(cs2.groups) ELSE L.group, LAMBDA group :
    Let(IF L.mapped THEN cs2 ELSE nested_map_options(cs2, parameter, converter_key, 1),
        LAMBDA cs3 :
    IF cs3.error # "none" THEN [L EXCEPT !.cs = cs3]
    ELSE
    Let(EmitBody(cs3, I_load_converter(converter_key)), LAMBDA cs4 :
    Let(IF p.cls = "SimpleTypeConverterStr"
        THEN compile_leaf(cs4, p)
        ELSE compile_parameter(cs4, depth + 1, p, FALSE,
                 [t |-> "append", parameter |-> p.name,
                  discretionary |-> is_converter_discretionary(p)],
                 None, FALSE), LAMBDA cs5 :
    Let(IF p.kind # "var_positional" THEN cs5
        ELSE IF group = 0 THEN [cs5 EXCEPT !.error = "AttributeError"]
        ELSE EmitBody([cs5 EXCEPT !.groups[group].init = SetRepeating(@)],
                      I_jump_to_label(label)), LAMBDA cs6 :
    positional_loop([cs |-> cs6, mapped |-> TRUE, group |-> group],
                    depth, parameter, converter_key, j + 1)))))))))))

compile_parameter(cs0, depth, parameter, multioption, append, add_to_kwargs, is_command) ==
    IF cs0.error # "none" THEN cs0
    ELSE
    Let(ConverterKey(cs0.converter_key_prefix, cs0.next_converter_key), LAMBDA converter_key :
    Let([cs0 EXCEPT !.next_converter_key = @ + 1,
                    !.command_converter_key = IF @ = None THEN converter_key ELSE @],
        LAMBDA cs1 :
    Let(cs1.G.label_id_counter + 1, LAMBDA label_flush_multioption :
    Let(cs1.G.label_id_counter + 2, LAMBDA label_after_multioption :
    Let(IF multioption
        THEN EmitInit(EmitInit([cs1 EXCEPT !.G.label_id_counter = @ + 2],
                               I_load_o(converter_key)),
                      I_branch_on_o_to_label(label_flush_multioption))
        ELSE cs1, LAMBDA cs2 :
    Let(EmitInit(cs2, I_create_converter(
            [name |-> parameter.name, cls |-> parameter.cls, callable |-> parameter.callable,
             default |-> parameter.default],
            converter_key, is_command)), LAMBDA cs3 :
    Let(IF append # None
        THEN EmitBody(EmitBody(cs3, I_load_o(converter_key)),
                      I_append_to_args(append.parameter, append.discretionary))
        ELSE IF add_to_kwargs # None
        THEN EmitBody(EmitBody(EmitBody(cs3, I_load_converter(add_to_kwargs.key)),
                               I_load_o(converter_key)),
                      I_add_to_kwargs(add_to_kwargs.name))
        ELSE cs3, LAMBDA cs4 :
    Let(IF multioption
        THEN EmitInit(EmitInit(EmitInit(EmitInit(cs4,
                 I_jump_to_label(label_after_multioption)),
                 I_label(label_flush_multioption)),
                 I_flush_multioption),
                 I_label(label_after_multioption))
        ELSE cs4, LAMBDA cs5 :
    Let(IF depth = 0 THEN nested_map_options(cs5, parameter, converter_key, 1) ELSE cs5,
        LAMBDA cs6 :
    Let(positional_loop([cs |-> cs6, mapped |-> (depth = 0), group |-> 0],
                        depth, parameter, converter_key, 1), LAMBDA L :
    IF L.mapped THEN L.cs
    ELSE nested_map_options(L.cs, parameter, converter_key, 1)))))))))))

\* CharmCompiler.__call__
compiler_call(cs, callable, is_option, multioption, add_to_kwargs) ==
    Let(compile_parameter([cs EXCEPT !.option_depth = IF is_option THEN @ + 1 ELSE @],
                          0, callable, multioption, None, add_to_kwargs, TRUE), LAMBDA cs2 :
    Let(IF cs2.error # "none" THEN cs2 ELSE compiler_finalize(cs2), LAMBDA cs3 :
    [cs3 EXCEPT !.option_depth = IF is_option THEN @ - 1 ELSE @]))

\* charm_compile(appeal, callable): the compiler's result from process-wide
\* state G; .program is the root program, .G.programs every program by id
charm_compile(G, callable) ==
    compiler_call(CharmCompiler(G, ProgramName(callable.callable, <<>>), RootKeyPrefix, None),
                  callable, FALSE, FALSE, None)

----------------------------------------------------------------------------
(* class Converter and its subclasses: the objects the interpreter creates. *)
(* The heap is a sequence of converter objects; a reference is an index.   *)
(* A value stored in a converter or held in a register is None, a string   *)
(* (a token) or a reference.  queued is 0 (None) or the parent's index.    *)
(* H is a record [h |-> heap, err |-> "none" or the exception raised].     *)

StrVal(a) == [t |-> "str", v |-> a]
Ref(id) == [t |-> "conv", id |-> id]

\* Converter.__init__ / reset (SimpleTypeConverter sets no kwargs_converters)
NewConverter(parameter, is_command) ==
    [cls |-> parameter.cls, name |-> parameter.name, is_command |-> is_command,
     default |-> parameter.default,
     queued |-> 0, args_queue |-> <<>>, args_converters |-> <<>>,
     kwargs_converters |-> <<>>, multi_converters |-> <<>>]

Heap(h) == [h |-> h, err |-> "none"]

IndexOf(q, x) ==
    IF \E j \in 1..Len(q) : q[j] = x
    THEN (CHOOSE j \in 1..Len(q) : q[j] = x /\ \A k \in 1..(j - 1) : q[k] # x)
    ELSE 0

\* a variant that moves only the converter asked for
FlushOnlyTarget(h, self, n) ==
    LET q == h[self].args_queue
    IN [j \in 1..Len(h) |->
          IF j = self
          THEN [h[j] EXCEPT !.args_queue = RemoveAt(q, n),
                            !.args_converters = Append(@, Ref(q[n]))]
          ELSE IF j = q[n] THEN [h[j] EXCEPT !.queued = 0]
          ELSE h[j]]

\* the loop of unqueue: pop the queue from the left up to and including
\* converter, appending each child to args_converters and clearing its queued
FlushUpTo(h, self, n) ==
    LET q == h[self].args_queue
        flushed == SubSeq(q, 1, n)
    IN [j \in 1..Len(h) |->
          IF j = self
          THEN [h[j] EXCEPT !.args_queue = SubSeq(q, n + 1, Len(q)),
                            !.args_converters = @ \o [k \in 1..n |-> Ref(flushed[k])]]
          ELSE IF \E k \in 1..n : flushed[k] = j
          THEN [h[j] EXCEPT !.queued = 0]
          ELSE h[j]]

\* a variant in which the parent flushes its queue and tells nobody
unqueue_one_level(h0, self, converter) ==
    LET p == h0[self].queued
        n == IF p = 0 THEN 0 ELSE IndexOf(h0[p].args_queue, self)
        h1 == IF p = 0 THEN h0
              ELSE [(IF n = 0 THEN h0 ELSE FlushUpTo(h0, p, n)) EXCEPT ![self].queued = 0]
        k == IF converter = 0 THEN 0 ELSE IndexOf(h1[self].args_queue, converter)
    IN IF k = 0 THEN h1 ELSE FlushUpTo(h1, self, k)

\* Converter.unqueue(converter); converter is 0 for None
RECURSIVE unqueue(_, _, _)
unqueue(h0, self, converter) ==
    LET h1 == IF h0[self].queued # 0
              THEN [unqueue(h0, h0[self].queued, self) EXCEPT ![self].queued = 0]
              ELSE h0
        n == IF converter = 0 THEN 0 ELSE IndexOf(h1[self].args_queue, converter)
    IN IF n = 0 THEN h1 ELSE FlushUpTo(h1, self, n)

\* Converter.append_converter(o)
append_converter(h, self, o) ==
    LET h1 == [h EXCEPT ![self].args_converters = Append(@, o)] IN
    IF o.t = "str" THEN Heap(unqueue(h1, self, 0))
    ELSE IF o.t = "none" THEN [h |-> h1, err |-> "AttributeError"]
    ELSE IF h1[o.id].queued # 0 THEN [h |-> h1, err |-> "AssertionError"]
    ELSE IF h1[self].queued # 0 THEN Heap([h1 EXCEPT ![o.id].queued = self])
    ELSE Heap(h1)

queue_converter_appends(h, self, o) == append_converter(h, self, o)

\* Converter.queue_converter(o)
queue_converter(h, self, o) ==
    IF o.t # "conv" THEN [h |-> h, err |-> "AttributeError"]
    ELSE IF h[o.id].queued # 0 THEN [h |-> h, err |-> "AssertionError"]
    ELSE Heap([h EXCEPT ![o.id].queued = self, ![self].args_queue = Append(@, o.id)])

\* a variant that takes the snapshot and keeps the values
flush_without_reset(h, self) ==
    [h EXCEPT ![self].multi_converters =
                  Append(@, [args |-> h[self].args_converters,
                             kwargs |-> h[self].kwargs_converters])]

\* MultiOption.flush: snapshot the accumulated values, then reset()
flush(h, self) ==
    [h EXCEPT ![self].multi_converters =
                  Append(@, [args |-> h[self].args_converters,
                             kwargs |-> h[self].kwargs_converters]),
              ![self].queued = 0, ![self].args_queue = <<>>,
              ![self].args_converters = <<>>, ![self].kwargs_converters = <<>>]

\* MultiOption.convert: flush once more, then convert the snapshots in the
\* order of multi_converters; the pairs (args_converters, kwargs_converters)
\* it converts
MultiOption_convert(h, self) == flush(h, self)[self].multi_converters

\* dict get / set on kwargs_converters, an insertion-ordered list of entries
KwGet(kw, name) ==
    IF \E j \in 1..Len(kw) : kw[j].name = name
    THEN kw[CHOOSE j \in 1..Len(kw) : kw[j].name = name].value
    ELSE None

KwSet(kw, name, value) ==
    IF \E j \in 1..Len(kw) : kw[j].name = name
    THEN [j \in 1..Len(kw) |-> IF kw[j].name = name THEN [kw[j] EXCEPT !.value = value] ELSE kw[j]]
    ELSE Append(kw, [name |-> name, value |-> value])

\* Option.execute on a BooleanOptionConverter c: init() stored the default,
\* option() negates it once, render() returns it
BooleanOptionConverter_execute(c) == [t |-> "bool", v |-> ~c.default.v]

\* Python truthiness of a register value: None and "" are false
Truthy(x) == x.t = "conv" \/ (x.t = "str" /\ x.v # <<>>)

----------------------------------------------------------------------------
(* class CharmInterpreter.Options: the stack of option scopes.  A scope is *)
(* a dict option -> [program, group].  token_to_dict is kept as the set of *)
(* its keys: its values are the dicts of the scopes themselves, and        *)
(* dict_id_to_token is its inverse.                                        *)

EmptyDict == [x \in {} |-> None]

Options_init ==
    [options |-> EmptyDict, token |-> 1, stack |-> <<>>, next_token |-> 2,
     token_to_dict |-> {1}]

\* the scopes of an Options object from the base upwards, the current one last
Scopes(O) == O.stack \o <<[options |-> O.options, token |-> O.token]>>

Options_setitem(O, option, value) == [O EXCEPT !.options = (option :> value) @@ @]

Options_push(O) ==
    [O EXCEPT !.stack = Append(@, [options |-> O.options, token |-> O.token]),
              !.options = EmptyDict, !.token = O.next_token, !.next_token = @ + 1,
              !.token_to_dict = @ \cup {O.next_token}]

\* a variant that leaves the token of the popped scope in token_to_dict
Options_pop_keeps_token(O) ==
    [O EXCEPT !.options = Last(O.stack).options, !.token = Last(O.stack).token,
              !.stack = Front(@)]

Options_pop(O) ==
    [O EXCEPT !.options = Last(O.stack).options, !.token = Last(O.stack).token,
              !.stack = Front(@), !.token_to_dict = @ \ {O.token}]

RECURSIVE PopWhile(_, _)
PopWhile(O, stop) ==
    IF O.stack # <<>> /\ O.options # stop THEN PopWhile(Options_pop(O), stop) ELSE O

\* a variant that pops one scope instead of looping
Options_pop_until_token_pops_once(O, token) ==
    [O |-> IF O.token = token \/ O.stack = <<>> THEN O ELSE Options_pop(O), err |-> "none"]

\* a variant that leaves every scope on the stack
Options_pop_until_token_keeps_scopes(O, token) == [O |-> O, err |-> "none"]

\* returns [O, err]
Options_pop_until_token(O, token) ==
    IF O.token = token THEN [O |-> O, err |-> "none"]
    ELSE LET live == {j \in 1..Len(O.stack) : O.stack[j].token = token} IN
         IF token \notin O.token_to_dict \/ live = {} THEN [O |-> O, err |-> "ValueError"]
         ELSE LET stop == O.stack[CHOOSE j \in live : TRUE].options IN
              IF DOMAIN stop = {} THEN [O |-> O, err |-> "ValueError"]
              ELSE LET O1 == PopWhile(O, stop) IN
                   [O |-> O1, err |-> IF O1.options # stop THEN "ValueError" ELSE "none"]

\* a variant that pops one scope only
Options_unmap_all_child_options_pops_once(O) ==
    IF O.stack = <<>> THEN O ELSE Options_pop(O)

RECURSIVE Options_unmap_all_child_options(_)
Options_unmap_all_child_options(O) ==
    IF O.stack = <<>> THEN O ELSE Options_unmap_all_child_options(Options_pop(O))

\* a variant that searches from the base upwards
Options_getitem_outermost_first(O, option, program_options) ==
    LET levels == O.stack \o <<[options |-> O.options, token |-> O.token]>>
        hits == {j \in 1..Len(levels) : option \in DOMAIN levels[j].options}
    IN IF hits # {}
       THEN LET j == CHOOSE k \in hits : \A l \in hits : k <= l IN
            [found |-> TRUE, program |-> levels[j].options[option].program,
             group_id |-> levels[j].options[option].group, token |-> levels[j].token]
       ELSE [found |-> FALSE,
             message |-> [t |-> "unknown option", option |-> denormalize_option(option)]]

Options_getitem_always_unknown(O, option, program_options) ==
    LET levels == O.stack \o <<[options |-> O.options, token |-> O.token]>>
        hits == {j \in 1..Len(levels) : option \in DOMAIN levels[j].options}
    IN IF hits # {}
       THEN LET j == CHOOSE k \in hits : \A l \in hits : l <= k IN
            [found |-> TRUE, program |-> levels[j].options[option].program,
             group_id |-> levels[j].options[option].group, token |-> levels[j].token]
       ELSE [found |-> FALSE,
             message |-> [t |-> "unknown option", option |-> denormalize_option(option)]]

\* __getitem__: the innermost scope that maps option, or the usage error;
\* program_options is interpreter.program.options
Options_getitem(O, option, program_options) ==
    LET levels == O.stack \o <<[options |-> O.options, token |-> O.token]>>
        hits == {j \in 1..Len(levels) : option \in DOMAIN levels[j].options}
    IN IF hits # {}
       THEN LET j == CHOOSE k \in hits : \A l \in hits : l <= k IN
            [found |-> TRUE, program |-> levels[j].options[option].program,
             group_id |-> levels[j].options[option].group, token |-> levels[j].token]
       ELSE LET parent_options == IF option \in DOMAIN program_options
                                  THEN program_options[option] ELSE None IN
            IF parent_options # None /\ parent_options.names # <<>>
            THEN [found |-> FALSE,
                  message |-> [t |-> "can't be used here, it must be used immediately after",
                               option |-> denormalize_option(option),
                               after |-> parent_options.names]]
            ELSE [found |-> FALSE,
                  message |-> [t |-> "unknown option", option |-> denormalize_option(option)]]

----------------------------------------------------------------------------
(* class CharmBaseInterpreter: registers, call stack, iterator.  The state *)
(* of one CharmInterpreter run is gathered in a record m so that a handler *)
(* is an operator from m to the next m.  ip is the iterator's index, -1    *)
(* when self.ip is None.  group and groups hold references to              *)
(* ArgumentGroup objects (0 is None): a positive reference is an index     *)
(* into gheap, the objects created by ArgumentGroup.copy; a negative one   *)
(* is the ArgumentGroup held by a set_group instruction of a program.      *)

Prog(m, id) == m.programs[id]

IpValid(programs, program, ip) == 0 <= ip /\ ip < Len(programs[program].opcodes)

\* CharmBaseInterpreter.running
running(m) ==
    \/ IpValid(m.programs, m.program, m.ip)
    \/ \E j \in 1..Len(m.call_stack) :
          IpValid(m.programs, m.call_stack[j].program, m.call_stack[j].ip)

Raise(m, kind, message) == [m EXCEPT !.pc = "done", !.outcome = kind, !.message = message]

CharmProgramStackEntry(m) ==
    [ip |-> m.ip, program |-> m.program, converter |-> m.converter, o |-> m.o,
     group |-> m.group, groups |-> m.groups]

\* a variant that leaves the group registers of the program that ended
restore_without_group(m, cpse) ==
    [m EXCEPT !.ip = cpse.ip, !.program = cpse.program, !.converter = cpse.converter,
              !.o = cpse.o]

restore(m, cpse) ==
    [m EXCEPT !.ip = cpse.ip, !.program = cpse.program, !.converter = cpse.converter,
              !.o = cpse.o, !.group = cpse.group, !.groups = cpse.groups]

call(m, program) ==
    [m EXCEPT !.call_stack = Append(@, CharmProgramStackEntry(m)),
              !.program = program, !.ip = 0, !.groups = <<>>,
              !.converter = None, !.o = None, !.group = 0]

finish(m) ==
    IF m.call_stack # <<>>
    THEN restore([m EXCEPT !.call_stack = Front(@)], Last(m.call_stack))
    ELSE [m EXCEPT !.ip = -1]

abort(m) == [m EXCEPT !.ip = -1, !.call_stack = <<>>]

RECURSIVE unwind(_)
unwind(m) == IF m.call_stack # <<>> THEN unwind(finish(m)) ELSE abort(m)

\* the state of a fresh CharmInterpreter on program, reading argi
CharmInterpreter(programs, semantics, program, argi, root_force_positional, heap) ==
    [programs |-> programs, semantics |-> semantics,
     argi |-> argi, program |-> program, ip |-> 0, call_stack |-> <<>>,
     converter |-> None, o |-> None, group |-> 0, groups |-> <<>>,
     converters |-> EmptyDict, heap |-> heap, gheap |-> <<>>,
     id_to_group |-> EmptyDict, options |-> Options_init,
     force_positional |-> root_force_positional,
     root_force_positional |-> root_force_positional,
     command_converter |-> 0, command_converter_key |-> None,
     op |-> None, option_program |-> 0,
     pc |-> "phase1", outcome |-> "running", message |-> None, result |-> None]

\* "for ip, op in self": the instruction fetched, and the state after the fetch
CurOp(m) == Prog(m, m.program).opcodes[m.ip + 1]

\* the reference to op.group, op the instruction at ip of program
GroupOfInstruction(program, ip) == 0 - (program * Inf + ip + 1)

\* the ArgumentGroup object a reference denotes
GroupAt(m, ref) ==
    IF ref > 0 THEN m.gheap[ref]
    ELSE m.programs[(0 - ref - 1) \div Inf].opcodes[((0 - ref - 1) % Inf) + 1].group

\* an attribute assignment through a reference
GroupUpdate(m, ref, F(_)) ==
    IF ref > 0 THEN [m EXCEPT !.gheap[ref] = F(@)]
    ELSE [m EXCEPT !.programs[(0 - ref - 1) \div Inf].opcodes[((0 - ref - 1) % Inf) + 1].group
                       = F(@)]
Fetch(m) == [m EXCEPT !.ip = @ + 1, !.op = CurOp(m)]

DictGet(d, k) == IF k \in DOMAIN d THEN d[k] ELSE None

----------------------------------------------------------------------------
(* CharmInterpreter.__call__, phase one: one operator per opcode.          *)

op_create_converter(m0) ==
    LET op == CurOp(m0)
        m == Fetch(m0)
        id == Len(m.heap) + 1
        m1 == [m EXCEPT !.heap = Append(@, NewConverter(op.parameter, op.is_command)),
                        !.converters = (op.key :> Ref(id)) @@ @,
                        !.o = Ref(id)]
    IN IF op.parameter.cls = "InferredConverterNoDefault"
       THEN Raise(m, "AppealConfigurationError", [t |-> "empty type not allowed"])
       ELSE IF op.is_command /\ m.command_converter = 0
       THEN [m1 EXCEPT !.command_converter = id, !.command_converter_key = op.key]
       ELSE m1

op_load_converter(m0) ==
    [Fetch(m0) EXCEPT !.converter = DictGet(m0.converters, CurOp(m0).key)]

op_load_o(m0) ==
    [Fetch(m0) EXCEPT !.o = DictGet(m0.converters, CurOp(m0).key)]

op_map_option(m0) ==
    LET op == CurOp(m0) IN
    [Fetch(m0) EXCEPT !.options = Options_setitem(@, op.option,
                                     [program |-> op.program, group |-> op.group])]

op_append_to_args(m0) ==
    LET op == CurOp(m0)
        m == Fetch(m0)
    IN IF m.converter.t # "conv" THEN Raise(m, "AttributeError", None)
       ELSE LET H == IF op.discretionary
                     THEN queue_converter(m.heap, m.converter.id, m.o)
                     ELSE append_converter(m.heap, m.converter.id, m.o)
            IN IF H.err # "none" THEN Raise([m EXCEPT !.heap = H.h], H.err, None)
               ELSE [m EXCEPT !.heap = H.h]

op_add_to_kwargs(m0) ==
    LET op == CurOp(m0)
        m == Fetch(m0)
    IN IF m.converter.t # "conv" THEN Raise(m, "AttributeError", None)
       ELSE IF m.heap[m.converter.id].cls \in SimpleTypeConverterClasses
       THEN Raise(m, "AttributeError", None)
       ELSE
       LET existing == KwGet(m.heap[m.converter.id].kwargs_converters, op.name) IN
       IF Truthy(existing)
       THEN IF ~(existing = m.o /\ existing.t = "conv" /\ m.heap[existing.id].cls = "MultiOption")
            THEN IF m.option_program = 0 THEN Raise(m, "UnboundLocalError", None)
                 ELSE Raise(m, "AppealUsageError",
                            [t |-> "specified more than once.",
                             name |-> Prog(m, m.option_program).name])
            ELSE m
       ELSE LET h1 == unqueue(m.heap, m.converter.id, 0) IN
            [m EXCEPT !.heap = [h1 EXCEPT ![m.converter.id].kwargs_converters =
                                              KwSet(@, op.name, m.o)]]

op_consume_argument(m0) ==
    LET m == Fetch(m0) IN
    [(IF m.argi = <<>> THEN abort(m) ELSE m) EXCEPT !.pc = "phase2"]

op_set_group_without_copy(m0) ==
    LET op == CurOp(m0)
        m == Fetch(m0)
        id == GroupOfInstruction(m0.program, m0.ip)
    IN [m EXCEPT !.group = id, !.groups = Append(@, id),
                 !.id_to_group = (op.id :> id) @@ @]

\* a variant that installs the copy made by an earlier execution again
op_set_group_reuses_copy(m0) ==
    LET op == CurOp(m0)
        m == Fetch(m0)
    IN IF op.id \in DOMAIN m.id_to_group
       THEN [m EXCEPT !.group = m.id_to_group[op.id], !.groups = Append(@, m.id_to_group[op.id])]
       ELSE [m EXCEPT !.gheap = Append(@, copy(op.group)),
                      !.group = Len(m.gheap) + 1, !.groups = Append(@, Len(m.gheap) + 1),
                      !.id_to_group = (op.id :> (Len(m.gheap) + 1)) @@ @]

op_set_group(m0) ==
    LET op == CurOp(m0)
        m == Fetch(m0)
        id == Len(m.gheap) + 1
    IN [m EXCEPT !.gheap = Append(@, copy(op.group)),
                 !.group = id, !.groups = Append(@, id),
                 !.id_to_group = (op.id :> id) @@ @]

op_flush_multioption(m0) ==
    LET m == Fetch(m0) IN
    IF ~(m.o.t = "conv" /\ m.heap[m.o.id].cls = "MultiOption")
    THEN Raise(m, "AssertionError", None)
    ELSE [m EXCEPT !.heap = flush(@, m.o.id)]

op_jump(m0) == [Fetch(m0) EXCEPT !.ip = CurOp(m0).address]

op_branch_on_o(m0) ==
    LET m == Fetch(m0) IN
    IF Truthy(m.o) THEN [m EXCEPT !.ip = CurOp(m0).address] ELSE m

op_end(m0) == Fetch(m0)

op_unhandled(m0) == Raise(Fetch(m0), "AppealConfigurationError", [t |-> "unhandled opcode"])

\* __next__ when the iterator is exhausted: return to the caller's program
next_finish(m) == finish(m)

\* __next__ raising StopIteration: the for loop's else clause, "op = None"
next_stop(m) == [m EXCEPT !.op = None, !.pc = "phase2"]

----------------------------------------------------------------------------
(* CharmInterpreter.__call__, phase two: the token loop "for a in argi".   *)

startswith(a, prefix) == Len(a) >= Len(prefix) /\ SubSeq(a, 1, Len(prefix)) = prefix

partition_never_splits(a) == [head |-> a, found |-> FALSE, tail |-> <<>>]

\* str.partition("="): [head, found, tail]
partition(a) ==
    LET n == IndexOf(a, "=") IN
    IF n = 0 THEN [head |-> a, found |-> FALSE, tail |-> <<>>]
    ELSE [head |-> SubSeq(a, 1, n - 1), found |-> TRUE, tail |-> SubSeq(a, n + 1, Len(a))]

is_oparg(m) == m.op # None /\ m.op.op = "consume_argument" /\ m.op.is_oparg

is_positional_argument_ignores_force(m, a) ==
    ~startswith(a, <<"-">>) \/ a = <<"-">> \/ is_oparg(m)

is_positional_argument_ignores_single_dash(m, a) ==
    m.force_positional \/ ~startswith(a, <<"-">>) \/ is_oparg(m)

is_positional_argument_ignores_oparg(m, a) ==
    m.force_positional \/ ~startswith(a, <<"-">>) \/ a = <<"-">>

is_positional_argument(m, a) ==
    m.force_positional \/ ~startswith(a, <<"-">>) \/ a = <<"-">> \/ is_oparg(m)

\* "while self.running() or argi": where control goes when the loop is left
while_test(m) == [m EXCEPT !.pc = IF running(m) \/ m.argi # <<>> THEN "phase1" ELSE "exit"]

\* the token loop runs out of tokens
tokens_exhausted(m) == while_test(m)

\* a variant that returns without argi.push(a)
positional_return_drops_token(m0) ==
    [m0 EXCEPT !.argi = Tail(@), !.pc = "done", !.outcome = "returned",
               !.result = m0.converters[m0.command_converter_key]]

\* a positional token nobody is waiting for: push it back and return
positional_return(m0) ==
    LET a == Head(m0.argi)
        m == [m0 EXCEPT !.argi = Tail(@)]
    IN IF m.command_converter_key = None THEN Raise(m, "AttributeError", None)
       ELSE [m EXCEPT !.argi = <<a>> \o @, !.pc = "done", !.outcome = "returned",
                      !.result = m.converters[m.command_converter_key]]

\* a positional token (or an oparg) for the pending consume_argument
positional(m0) ==
    LET a == Head(m0.argi)
        m == [m0 EXCEPT !.argi = Tail(@), !.o = StrVal(a)]
        m1 == IF m.group # 0
              THEN GroupUpdate(m, m.group, LAMBDA g : group_mark_laden(group_consume(g)))
              ELSE m
        m2 == IF ~is_oparg(m0)
              THEN [m1 EXCEPT !.options = Options_unmap_all_child_options(@)]
              ELSE m1
    IN while_test(m2)

double_dash_leaves_token(m0) == m0

\* the token "--" in option position
double_dash(m0) ==
    IF ~m0.semantics.option_space_oparg
    THEN Raise([m0 EXCEPT !.argi = Tail(@)], "AppealConfigurationError",
               [t |-> "option_space_oparg must be True"])
    ELSE
    [m0 EXCEPT !.argi = Tail(@), !.force_positional = TRUE, !.root_force_positional = TRUE]

short_option_remainder_drops_rest(m, key, remainder, split, minimum_arguments, maximum_arguments) ==
    [m |-> m, split |-> split]

short_option_remainder_fuses_any_single(m, key, remainder, split, minimum_arguments, maximum_arguments) ==
    IF remainder = <<>> THEN [m |-> m, split |-> split]
    ELSE IF maximum_arguments = 0
    THEN [m |-> [m EXCEPT !.argi = <<(<<"-">> \o remainder)>> \o @], split |-> split]
    ELSE IF maximum_arguments >= 2
    THEN [m |-> Raise(m, "AppealUsageError",
                      [t |-> "isn't allowed, takes arguments, it must be last",
                       option |-> key, minimum |-> minimum_arguments,
                       maximum |-> maximum_arguments]),
          split |-> split]
    ELSE [m |-> m, split |-> StrVal(remainder)]

\* the checks on the remainder of a short option; returns the machine with
\* argi updated (or raised) and the split value
short_option_remainder(m, key, remainder, split, minimum_arguments, maximum_arguments) ==
    IF remainder = <<>> THEN [m |-> m, split |-> split]
    ELSE IF maximum_arguments = 0
    THEN [m |-> [m EXCEPT !.argi = <<(<<"-">> \o remainder)>> \o @], split |-> split]
    ELSE IF maximum_arguments >= 2
    THEN [m |-> Raise(m, "AppealUsageError",
                      [t |-> "isn't allowed, takes arguments, it must be last",
                       option |-> key, minimum |-> minimum_arguments,
                       maximum |-> maximum_arguments]),
          split |-> split]
    ELSE IF m.semantics.short_option_concatenated_oparg /\ minimum_arguments = 0
    THEN IF split # None
         THEN [m |-> Raise(m, "AppealUsageError",
                           [t |-> "isn't allowed, must be last because it takes an argument",
                            option |-> key]),
               split |-> split]
         ELSE [m |-> m, split |-> StrVal(remainder)]
    ELSE IF ~(minimum_arguments = maximum_arguments /\ maximum_arguments = 1)
    THEN [m |-> Raise(m, "AssertionError", None), split |-> split]
    ELSE [m |-> Raise(m, "AppealUsageError",
                      [t |-> "isn't allowed, must be last because it takes an argument",
                       option |-> key]),
          split |-> split]

invoke_option_split_for_any_arity(m, hit, split, maximum_arguments) ==
    IF hit.group_id \notin DOMAIN m.id_to_group THEN Raise(m, "KeyError", None)
    ELSE
    Bind(GroupUpdate(m, m.id_to_group[hit.group_id], group_mark_laden), LAMBDA m1 :
    Bind(IF m1.op # None THEN [m1 EXCEPT !.ip = @ - 1, !.op = None] ELSE m1, LAMBDA rewound :
    Bind(Options_pop_until_token(rewound.options, hit.token), LAMBDA P :
    Bind([rewound EXCEPT !.options = Options_push(P.O)], LAMBDA m2 :
    Bind(IF split # None THEN [m2 EXCEPT !.argi = <<split.v>> \o @] ELSE m2, LAMBDA m3 :
       IF m1.op # None /\ m1.ip = -1 THEN Raise(m1, "StopIteration", None)
       ELSE IF m1.op # None /\ ~IpValid(m1.programs, m1.program, m1.ip - 1)
       THEN Raise(m1, "RuntimeError", None)
       ELSE IF P.err # "none" THEN Raise(rewound, P.err, None)
       ELSE call([m3 EXCEPT !.pc = "phase1"], hit.program))))))

\* a variant that leaves the instruction pointer behind the pending
\* consume_argument
invoke_option_without_rewind(m, hit, split, maximum_arguments) ==
    IF hit.group_id \notin DOMAIN m.id_to_group THEN Raise(m, "KeyError", None)
    ELSE
    Bind(GroupUpdate(m, m.id_to_group[hit.group_id], group_mark_laden), LAMBDA m1 :
    Bind([m1 EXCEPT !.op = None], LAMBDA rewound :
    Bind(Options_pop_until_token(rewound.options, hit.token), LAMBDA P :
    Bind([rewound EXCEPT !.options = Options_push(P.O)], LAMBDA m2 :
    Bind(IF split # None THEN [m2 EXCEPT !.argi = <<split.v>> \o @] ELSE m2, LAMBDA m3 :
       IF m1.op # None /\ m1.ip = -1 THEN Raise(m1, "StopIteration", None)
       ELSE IF m1.op # None /\ ~IpValid(m1.programs, m1.program, m1.ip - 1)
       THEN Raise(m1, "RuntimeError", None)
       ELSE IF P.err # "none" THEN Raise(rewound, P.err, None)
       ELSE IF split # None /\ maximum_arguments = 0
       THEN Raise(m2, "AppealUsageError", [t |-> "isn't allowed, doesn't take an argument"])
       ELSE IF split # None /\ maximum_arguments >= 2
       THEN Raise(m2, "AppealUsageError", [t |-> "isn't allowed, takes multiple arguments"])
       ELSE call([m3 EXCEPT !.pc = "phase1"], hit.program))))))

\* everything from "laden_group = id_to_group[group_id]" to "self.call(program)"
invoke_option(m, hit, split, maximum_arguments) ==
    IF hit.group_id \notin DOMAIN m.id_to_group THEN Raise(m, "KeyError", None)
    ELSE
    Bind(GroupUpdate(m, m.id_to_group[hit.group_id], group_mark_laden), LAMBDA m1 :
    Bind(IF m1.op # None THEN [m1 EXCEPT !.ip = @ - 1, !.op = None] ELSE m1, LAMBDA rewound :
    Bind(Options_pop_until_token(rewound.options, hit.token), LAMBDA P :
    Bind([rewound EXCEPT !.options = Options_push(P.O)], LAMBDA m2 :
    Bind(IF split # None THEN [m2 EXCEPT !.argi = <<split.v>> \o @] ELSE m2, LAMBDA m3 :
       IF m1.op # None /\ m1.ip = -1 THEN Raise(m1, "StopIteration", None)
       ELSE IF m1.op # None /\ ~IpValid(m1.programs, m1.program, m1.ip - 1)
       THEN Raise(m1, "RuntimeError", None)
       ELSE IF P.err # "none" THEN Raise(rewound, P.err, None)
       ELSE IF split # None /\ maximum_arguments = 0
       THEN Raise(m2, "AppealUsageError", [t |-> "isn't allowed, doesn't take an argument"])
       ELSE IF split # None /\ maximum_arguments >= 2
       THEN Raise(m2, "AppealUsageError", [t |-> "isn't allowed, takes multiple arguments"])
       ELSE call([m3 EXCEPT !.pc = "phase1"], hit.program))))))

\* a token in option position that is not "--"
option(m0) ==
    LET a0 == Head(m0.argi)
        m == [m0 EXCEPT !.argi = Tail(@)]
        is_long == startswith(a0, <<"-", "-">>)
        try_to_split_value == is_long \/ m.semantics.short_option_equals_oparg
    IN
    IF ~m.semantics.option_space_oparg
    THEN Raise(m, "AppealConfigurationError", [t |-> "option_space_oparg must be True"])
    ELSE
    Bind(IF try_to_split_value THEN partition(a0)
         ELSE [head |-> a0, found |-> FALSE, tail |-> <<>>], LAMBDA parts :
    LET a == parts.head
        split0 == IF parts.found THEN StrVal(parts.tail) ELSE None
        key == IF is_long THEN a ELSE <<a[2]>>
    IN
    IF ~is_long /\ Len(a) < 2 THEN Raise(m, "IndexError", None)
    ELSE
    Bind(Options_getitem(m.options, key, Prog(m, m.program).options), LAMBDA hit :
    IF ~hit.found THEN Raise(m, "AppealUsageError", hit.message)
    ELSE
    Bind(Prog(m, hit.program).total, LAMBDA total :
    Bind(IF is_long THEN [m |-> m, split |-> split0]
         ELSE short_option_remainder(m, key, SubSeq(a, 3, Len(a)), split0,
                                     total.minimum, total.maximum), LAMBDA R :
    IF R.m.outcome # "running" THEN [R.m EXCEPT !.option_program = hit.program]
    ELSE invoke_option([R.m EXCEPT !.option_program = hit.program], hit, R.split,
                       total.maximum)))))

validate_skips_check(m0) ==
    [unwind(m0) EXCEPT !.pc = "done", !.outcome = "returned",
                       !.result = m0.converters[m0.command_converter_key]]

\* after the loop: unwind and validate the group in the group register
validate(m0) ==
    LET m == unwind(m0) IN
    IF m.group = 0 THEN Raise(m, "AssertionError", None)
    ELSE LET g == GroupAt(m, m.group) IN
         IF ~satisfied(g)
         THEN Raise(m, "AppealUsageError",
                    [t |-> "requires arguments in this argument group.",
                     name |-> Prog(m, m.program).name,
                     minimum |-> g.minimum, maximum |-> g.maximum])
         ELSE IF m.command_converter_key = None THEN Raise(m, "AttributeError", None)
         ELSE [m EXCEPT !.pc = "done", !.outcome = "returned",
                        !.result = m.converters[m.command_converter_key]]

\* one step of __call__: the handler of the instruction or token that is next
interpreter_step(m) ==
    IF m.pc = "phase1" THEN
        IF IpValid(m.programs, m.program, m.ip) THEN
            CASE CurOp(m).op = "create_converter" -> op_create_converter(m)
              [] CurOp(m).op = "load_converter" -> op_load_converter(m)
              [] CurOp(m).op = "load_o" -> op_load_o(m)
              [] CurOp(m).op = "map_option" -> op_map_option(m)
              [] CurOp(m).op = "append_to_args" -> op_append_to_args(m)
              [] CurOp(m).op = "add_to_kwargs" -> op_add_to_kwargs(m)
              [] CurOp(m).op = "consume_argument" -> op_consume_argument(m)
              [] CurOp(m).op = "set_group" -> op_set_group(m)
              [] CurOp(m).op = "flush_multioption" -> op_flush_multioption(m)
              [] CurOp(m).op = "jump" -> op_jump(m)
              [] CurOp(m).op = "branch_on_o" -> op_branch_on_o(m)
              [] CurOp(m).op = "end" -> op_end(m)
              [] OTHER -> op_unhandled(m)
        ELSE IF m.call_stack # <<>> THEN next_finish(m) ELSE next_stop(m)
    ELSE IF m.pc = "phase2" THEN
        IF m.argi = <<>> THEN tokens_exhausted(m)
        ELSE IF is_positional_argument(m, Head(m.argi))
        THEN IF m.op = None THEN positional_return(m) ELSE positional(m)
        ELSE IF Head(m.argi) = <<"-", "-">> THEN double_dash(m)
        ELSE option(m)
    ELSE IF m.pc = "exit" THEN validate(m)
    ELSE m

\* CharmInterpreter.__call__ from state m until it returns or raises
RECURSIVE interpreter_call(_)
interpreter_call(m) == IF m.pc = "done" THEN m ELSE interpreter_call(interpreter_step(m))

----------------------------------------------------------------------------
(* Appeal and Processor: the applications the interpreter is run on.  An   *)
(* application is a global callable and a dict of commands; analyze()      *)
(* compiles each with charm_compile, sharing the process-wide counters.    *)

Leaf(name, has_default, first_in_group, in_required_group) ==
    Param(name, "positional", has_default, "SimpleTypeConverterStr", "str", <<>>, <<>>,
          first_in_group, in_required_group)
IntParam(name) ==
    Param(name, "positional", TRUE, "SimpleTypeConverterInt", "int",
          <<Leaf("int", FALSE, FALSE, FALSE)>>, <<>>, TRUE, FALSE)
BoolOption(name) ==
    [Param(name, "keyword_only", TRUE, "BooleanOptionConverter", "bool", <<>>, << <<name>> >>,
           FALSE, FALSE) EXCEPT !.default = [t |-> "bool", v |-> FALSE]]
StrOption(name) ==
    Param(name, "keyword_only", TRUE, "SimpleTypeConverterStr", "str", <<>>, << <<name>> >>,
          FALSE, FALSE)
FnOption(name, callable, sig) ==
    Param(name, "keyword_only", TRUE, "Converter", callable, sig, << <<name>> >>, FALSE, FALSE)
MultiOptionParam(name, callable, sig) ==
    Param(name, "keyword_only", TRUE, "MultiOption", callable, sig, << <<name>> >>, FALSE, FALSE)
VarPositional(name) ==
    Param(name, "var_positional", FALSE, "SimpleTypeConverterStr", "str", <<>>, <<>>, TRUE, FALSE)
Fn(callable, sig) ==
    Param(callable, "positional", FALSE, "Converter", callable, sig, <<>>, FALSE, TRUE)

ConverterParam(name, callable, sig) ==
    Param(name, "positional", FALSE, "Converter", callable, sig, <<>>, FALSE, TRUE)

\* Appeal.__init__ defaults of option_parsing_semantics
DefaultSemantics ==
    [option_space_oparg |-> TRUE, short_option_equals_oparg |-> TRUE,
     short_option_concatenated_oparg |-> TRUE]

\* def fn(a, b, c=1, *, v=False)
Fn_abcv == Fn("fn", <<Leaf("a", FALSE, TRUE, TRUE), Leaf("b", FALSE, FALSE, TRUE),
                      IntParam("c"), BoolOption("v")>>)
\* def fn(x="", *, a=False, b=False, c=False, s="")
Fn_bundle == Fn("fn", <<Leaf("x", TRUE, TRUE, FALSE), BoolOption("a"), BoolOption("b"),
                        BoolOption("c"), StrOption("s")>>)
\* def fopt(s=""); def fn(x="", *, f:fopt=None)
Fn_f == Fn("fn", <<Leaf("x", TRUE, TRUE, FALSE),
                   FnOption("f", "fopt", <<Leaf("s", TRUE, TRUE, FALSE)>>)>>)
\* def A(*, b=False); def fn(p, *, a:A=None)
Fn_nested == Fn("fn", <<Leaf("p", FALSE, TRUE, TRUE),
                        FnOption("a", "A", <<BoolOption("b")>>)>>)
\* def g(*, v=False) as the global command, def run(x) as command "r"
Fn_global == Fn("g", <<BoolOption("v")>>)
Fn_run == Fn("run", <<Leaf("x", FALSE, TRUE, TRUE)>>)
\* class acc(MultiOption): def option(self, s); def fn(*args, m:acc=None)
Fn_multi == Fn("fn", <<VarPositional("args"),
                       MultiOptionParam("m", "acc", <<Leaf("s", FALSE, TRUE, TRUE)>>)>>)

\* def A(*, o=False); def B(*, o=False); def fn(a, b:A, c:B)
Fn_dup == Fn("fn", <<Leaf("a", FALSE, TRUE, TRUE),
                     ConverterParam("b", "A", <<BoolOption("o")>>),
                     ConverterParam("c", "B", <<BoolOption("o")>>)>>)

\* def two(a, b); def fn(*, t:two=None, s="")
Fn_pair == Fn("fn", <<FnOption("t", "two", <<Leaf("a", FALSE, TRUE, TRUE),
                                             Leaf("b", FALSE, FALSE, TRUE)>>),
                      StrOption("s")>>)

\* def fn(a, *, v=False), with app.option("w", "-w") declared on fn: w is no
\* parameter of fn, and fn takes no **kwargs
Fn_no_kwargs ==
    [Fn("fn", <<Leaf("a", FALSE, TRUE, TRUE), BoolOption("v")>>)
        EXCEPT !.unseen = <<BoolOption("w")>>]

\* def A(*, o=False); def fn(a:A=None, b=""): a converter with a default
\* is discretionary, and a is the first parameter of the optional group
Fn_late ==
    Fn("fn", <<Param("a", "positional", TRUE, "Converter", "A", <<BoolOption("o")>>, <<>>,
                     TRUE, FALSE),
               Leaf("b", TRUE, TRUE, FALSE)>>)

\* def fopt(s=""); def fn(p, *, f:fopt=None)
Fn_required == Fn("fn", <<Leaf("p", FALSE, TRUE, TRUE),
                          FnOption("f", "fopt", <<Leaf("s", TRUE, TRUE, FALSE)>>)>>)

\* def A(*, b=False, c=""); def fn(*, a:A=None, s=False)
Fn_family == Fn("fn", <<FnOption("a", "A", <<BoolOption("b"), StrOption("c")>>),
                        BoolOption("s")>>)

\* def A(*, s=False); def fn(*, a:A=None, s=False)
Fn_shadow == Fn("fn", <<FnOption("a", "A", <<BoolOption("s")>>), BoolOption("s")>>)

\* def A(*, o=False); def D(y); def C(d:D); def B(c:C=None);
\* def fn(a:A=None, b:B=None): a, b and c are discretionary, c is queued on
\* b while b is queued on fn, and d has no default
Fn_queued ==
    Fn("fn", <<Param("a", "positional", TRUE, "Converter", "A", <<BoolOption("o")>>, <<>>,
                     TRUE, FALSE),
               Param("b", "positional", TRUE, "Converter", "B",
                     <<Param("c", "positional", TRUE, "Converter", "C",
                             <<Param("d", "positional", FALSE, "Converter", "D",
                                     <<Leaf("y", FALSE, FALSE, FALSE)>>, <<>>,
                                     FALSE, FALSE)>>,
                             <<>>, FALSE, FALSE)>>,
                     <<>>, TRUE, FALSE)>>)

\* def A(p, *, b=False); def fn(a:A=None): -b is mapped in the optional
\* group of p
Fn_laden ==
    Fn("fn", <<Param("a", "positional", TRUE, "Converter", "A",
                     <<Leaf("p", FALSE, FALSE, FALSE), BoolOption("b")>>, <<>>,
                     TRUE, FALSE)>>)

\* def fn(*, s=""): -s= hands the empty string to s
Fn_empty == Fn("fn", <<StrOption("s")>>)

\* the programs of an application with a global callable and one optional
\* command: [programs, global, commands, error]
Analyze(G0, global, command_name, command) ==
    Let(charm_compile(G0, global), LAMBDA c1 :
    Let(IF command = None THEN c1 ELSE charm_compile(c1.G, command), LAMBDA c2 :
    [programs |-> c2.G.programs, global |-> c1.program.id,
     commands |-> IF command = None THEN EmptyDict
                  ELSE (command_name :> c2.program.id),
     error |-> IF c1.error # "none" THEN c1.error ELSE c2.error]))

\* the applications under test, by number
AppealIn(G0, i) ==
    CASE i = 1 -> Analyze(G0, Fn_abcv, None, None)
      [] i = 2 -> Analyze(G0, Fn_bundle, None, None)
      [] i = 3 -> Analyze(G0, Fn_f, None, None)
      [] i = 4 -> Analyze(G0, Fn_nested, None, None)
      [] i = 5 -> Analyze(G0, Fn_global, <<"r">>, Fn_run)
      [] i = 6 -> Analyze(G0, Fn_multi, None, None)
      [] i = 7 -> Analyze(G0, Fn_pair, None, None)
      [] i = 8 -> Analyze(G0, Fn_late, None, None)
      [] i = 9 -> Analyze(G0, Fn_required, None, None)
      [] i = 10 -> Analyze(G0, Fn_family, None, None)
      [] i = 11 -> Analyze(G0, Fn_shadow, None, None)
      [] i = 12 -> Analyze(G0, Fn_queued, None, None)
      [] i = 13 -> Analyze(G0, Fn_laden, None, None)
      [] i = 14 -> Analyze(G0, Fn_empty, None, None)

Appeal(i) == AppealIn(Globals0, i)

\* the command-line tokens tried on each application
Alphabet ==
    << {<<"1">>, <<"2">>, <<"-", "v">>, <<"-", "-">>, <<"-", "x">>},
       {<<"1">>, <<"-", "a", "b", "c">>, <<"-", "a">>, <<"-", "s">>, <<"-", "-">>},
       {<<"-", "f", "=", "h", "i">>, <<"-", "f", "h", "i">>, <<"-", "f">>, <<"h", "i">>},
       {<<"-", "a">>, <<"-", "b">>, <<"p">>, <<"-", "b", "=", "p">>},
       {<<"-", "v">>, <<"-", "-">>, <<"r">>, <<"-", "x">>},
       {<<"1">>, <<"-", "m">>, <<"-", "m", "=", "2">>},
       {<<"x">>, <<"-", "t", "x">>, <<"-", "s", "x">>, <<"-", "t", "=", "x">>},
       {<<"x">>, <<"-", "o">>},
       {<<"p">>, <<"-", "f">>, <<"-">>, <<"-", "-">>},
       {<<"-", "a">>, <<"-", "b">>, <<"-", "c">>, <<"-", "s">>, <<"x">>},
       {<<"-", "a">>, <<"-", "s">>},
       {<<"y">>, <<"-", "o">>},
       {<<"p">>, <<"-", "b">>},
       {<<"-", "s", "=">>, <<"-", "s", "=", "x">>} >>

RECURSIVE SeqsUpTo(_, _)
SeqsUpTo(S, n) ==
    IF n = 0 THEN {<<>>}
    ELSE LET shorter == SeqsUpTo(S, n - 1) IN
         shorter \cup {Append(q, x) : q \in {r \in shorter : Len(r) = n - 1}, x \in S}

----------------------------------------------------------------------------
(* Appeal.parse on top of the interpreter: the global callable's run, then *)
(* the command named by the next token, then the leftover check.           *)

parse_finish_ignores_leftovers(m, commands, stage) ==
    IF stage = "global" /\ m.argi = <<>> /\ commands # EmptyDict
    THEN Raise(m, "AppealUsageError", [t |-> "no command specified."])
    ELSE IF stage = "global" /\ m.argi # <<>> /\ commands # EmptyDict
    THEN Raise([m EXCEPT !.argi = Tail(@)], "AppealUsageError",
               [t |-> "error: unknown command", name |-> Head(m.argi)])
    ELSE [m EXCEPT !.outcome = "parsed"]

\* Appeal.parse after the run of the global callable returned, no command to run
parse_finish(m, commands, stage) ==
    IF stage = "global" /\ m.argi = <<>>
    THEN IF commands # EmptyDict
         THEN Raise(m, "AppealUsageError", [t |-> "no command specified."])
         ELSE [m EXCEPT !.outcome = "parsed"]
    ELSE IF stage = "global" /\ commands # EmptyDict
    THEN Raise([m EXCEPT !.argi = Tail(@)], "AppealUsageError",
               [t |-> "error: unknown command", name |-> Head(m.argi)])
    ELSE IF m.argi # <<>>
    THEN Raise(m, "AppealUsageError", [t |-> "leftover cmdline arguments!", argi |-> m.argi])
    ELSE [m EXCEPT !.outcome = "parsed"]

\* Appeal.parse: "for command_name in processor.argi", sub_appeal.parse
parse_command(m, commands) ==
    CharmInterpreter(m.programs, m.semantics, commands[Head(m.argi)], Tail(m.argi),
                     m.root_force_positional, m.heap)

----------------------------------------------------------------------------
(* The state of a Processor run: the registers and objects of the current  *)
(* CharmInterpreter (the fields of the record m above, one variable each), *)
(* Processor.args, the application's commands and the stage of parse.      *)

VARIABLES programs,
          semantics,
          argi,
          program,
          ip,
          call_stack,
          converter,
          o,
          group,
          groups,
          converters,
          heap,
          gheap,
          id_to_group,
          options,
          force_positional,
          root_force_positional,
          command_converter,
          command_converter_key,
          op,
          option_program,
          pc,
          outcome,
          message,
          result,
          args, commands, stage, appeal

ivars == <<programs, semantics, argi, program, ip, call_stack, converter, o, group, groups, converters, heap, gheap, id_to_group, options, force_positional, root_force_positional, command_converter, command_converter_key, op, option_program, pc, outcome, message, result, args, commands, stage, appeal>>

xvars == <<process, compiled>>
ovars == <<ag, draft, fin, compiler, log, tree, xvars>>
vars == <<ivars, ovars>>

\* the current interpreter as a record, and the assignment of one
M ==
    [programs |-> programs,
     semantics |-> semantics,
     argi |-> argi,
     program |-> program,
     ip |-> ip,
     call_stack |-> call_stack,
     converter |-> converter,
     o |-> o,
     group |-> group,
     groups |-> groups,
     converters |-> converters,
     heap |-> heap,
     gheap |-> gheap,
     id_to_group |-> id_to_group,
     options |-> options,
     force_positional |-> force_positional,
     root_force_positional |-> root_force_positional,
     command_converter |-> command_converter,
     command_converter_key |-> command_converter_key,
     op |-> op,
     option_program |-> option_program,
     pc |-> pc,
     outcome |-> outcome,
     message |-> message,
     result |-> result]

\* the registers take the values of the record next (computed once)
Set(next) ==
    \E m \in {next} :
      /\ programs' = m.programs
      /\ semantics' = m.semantics
      /\ argi' = m.argi
      /\ program' = m.program
      /\ ip' = m.ip
      /\ call_stack' = m.call_stack
      /\ converter' = m.converter
      /\ o' = m.o
      /\ group' = m.group
      /\ groups' = m.groups
      /\ converters' = m.converters
      /\ heap' = m.heap
      /\ gheap' = m.gheap
      /\ id_to_group' = m.id_to_group
      /\ options' = m.options
      /\ force_positional' = m.force_positional
      /\ root_force_positional' = m.root_force_positional
      /\ command_converter' = m.command_converter
      /\ command_converter_key' = m.command_converter_key
      /\ op' = m.op
      /\ option_program' = m.option_program
      /\ pc' = m.pc
      /\ outcome' = m.outcome
      /\ message' = m.message
      /\ result' = m.result

MaxArgs == 3
MaxSettingArgs == 2

\* a state of the other specifications' variables, which Spec leaves alone
IdleGroup == ag = None
IdleFinalize == draft = <<>> /\ fin = None
IdleCompile == compiler = None /\ log = <<>>
IdleQueue == tree = <<>>
IdleRecompile == process = None /\ compiled = <<>>
IdleExtra == IdleRecompile
Idle == IdleGroup /\ IdleFinalize /\ IdleCompile /\ IdleQueue /\ IdleExtra

\* Appeal.main on one of the applications: the tokens are a command line of
\* at most n tokens, the parsing semantics one of Settings
MainIn(G0, Settings, n) ==
    /\ \E i \in DOMAIN Alphabet : \E a \in {AppealIn(G0, i)} : \E setting \in Settings :
          /\ appeal = i
          /\ args \in SeqsUpTo(Alphabet[i], n)
          /\ commands = a.commands
          /\ \E m \in {CharmInterpreter(a.programs, setting,
                                        a.global, args, FALSE, <<>>)} :
               /\ programs = m.programs /\ semantics = m.semantics /\ argi = m.argi
               /\ program = m.program /\ ip = m.ip /\ call_stack = m.call_stack
               /\ converter = m.converter /\ o = m.o /\ group = m.group
               /\ groups = m.groups /\ converters = m.converters /\ heap = m.heap
               /\ gheap = m.gheap /\ id_to_group = m.id_to_group /\ options = m.options
               /\ force_positional = m.force_positional
               /\ root_force_positional = m.root_force_positional
               /\ command_converter = m.command_converter
               /\ command_converter_key = m.command_converter_key
               /\ op = m.op /\ option_program = m.option_program /\ pc = m.pc
               /\ outcome = m.outcome /\ message = m.message /\ result = m.result
    /\ stage = "global"
    /\ Idle

Main(Settings, n) == MainIn(Globals0, Settings, n)

Init == Main({DefaultSemantics}, MaxArgs)

LoadsInit == MainIn(GlobalsKeepingLoads, {DefaultSemantics}, MaxArgs)

Keep == UNCHANGED <<args, commands, stage, appeal, ovars>>

Fetching(name) ==
    /\ pc = "phase1"
    /\ IpValid(programs, program, ip)
    /\ CurOp(M).op = name

CreateConverter == Fetching("create_converter") /\ Set(op_create_converter(M)) /\ Keep
LoadConverter == Fetching("load_converter") /\ Set(op_load_converter(M)) /\ Keep
LoadO == Fetching("load_o") /\ Set(op_load_o(M)) /\ Keep
MapOption == Fetching("map_option") /\ Set(op_map_option(M)) /\ Keep
AppendToArgs == Fetching("append_to_args") /\ Set(op_append_to_args(M)) /\ Keep
AddToKwargs == Fetching("add_to_kwargs") /\ Set(op_add_to_kwargs(M)) /\ Keep
ConsumeArgument == Fetching("consume_argument") /\ Set(op_consume_argument(M)) /\ Keep
SetGroup == Fetching("set_group") /\ Set(op_set_group(M)) /\ Keep
FlushMultioption == Fetching("flush_multioption") /\ Set(op_flush_multioption(M)) /\ Keep
Jump == Fetching("jump") /\ Set(op_jump(M)) /\ Keep
BranchOnO == Fetching("branch_on_o") /\ Set(op_branch_on_o(M)) /\ Keep
End == Fetching("end") /\ Set(op_end(M)) /\ Keep

NextFinish ==
    /\ pc = "phase1" /\ ~IpValid(programs, program, ip) /\ call_stack # <<>>
    /\ Set(next_finish(M)) /\ Keep

NextStop ==
    /\ pc = "phase1" /\ ~IpValid(programs, program, ip) /\ call_stack = <<>>
    /\ Set(next_stop(M)) /\ Keep

TokensExhausted == pc = "phase2" /\ argi = <<>> /\ Set(tokens_exhausted(M)) /\ Keep

PositionalReturn ==
    /\ pc = "phase2" /\ argi # <<>> /\ is_positional_argument(M, Head(argi)) /\ op = None
    /\ Set(positional_return(M)) /\ Keep

Positional ==
    /\ pc = "phase2" /\ argi # <<>> /\ is_positional_argument(M, Head(argi)) /\ op # None
    /\ Set(positional(M)) /\ Keep

DoubleDash ==
    /\ pc = "phase2" /\ argi # <<>> /\ ~is_positional_argument(M, Head(argi))
    /\ Head(argi) = <<"-", "-">>
    /\ Set(double_dash(M)) /\ Keep

InvokeOption ==
    /\ pc = "phase2" /\ argi # <<>> /\ ~is_positional_argument(M, Head(argi))
    /\ Head(argi) # <<"-", "-">>
    /\ Set(option(M)) /\ Keep

Validate == pc = "exit" /\ Set(validate(M)) /\ Keep

WantsCommand ==
    stage = "global" /\ argi # <<>> /\ commands # EmptyDict /\ Head(argi) \in DOMAIN commands

ParseCommand ==
    /\ pc = "done" /\ outcome = "returned" /\ WantsCommand
    /\ Set(parse_command(M, commands))
    /\ stage' = "command"
    /\ UNCHANGED <<args, commands, appeal, ovars>>

ParseFinish ==
    /\ pc = "done" /\ outcome = "returned" /\ ~WantsCommand
    /\ Set(parse_finish(M, commands, stage))
    /\ Keep

Next ==
    \/ CreateConverter \/ LoadConverter \/ LoadO \/ MapOption \/ AppendToArgs
    \/ AddToKwargs \/ ConsumeArgument \/ SetGroup \/ FlushMultioption \/ Jump
    \/ BranchOnO \/ End \/ NextFinish \/ NextStop
    \/ TokensExhausted \/ PositionalReturn \/ Positional \/ DoubleDash \/ InvokeOption
    \/ Validate \/ ParseCommand \/ ParseFinish

Spec == Init /\ [][Next]_vars

\* the same runs on the programs that still hold their redundant loads
SpecLoads == LoadsInit /\ [][Next]_vars

\* SpecTermination: the runs of Spec, the interpreter taking its next step
\* as long as it has one (a sequential program that is never suspended)
SpecTermination == Init /\ [][Next]_vars /\ WF_vars(Next)

\* SpecSemantics: the same runs under every setting of the parsing semantics
\* (Appeal.__init__: option_space_oparg, short_option_equals_oparg,
\* short_option_concatenated_oparg)
Semantics ==
    [option_space_oparg : BOOLEAN, short_option_equals_oparg : BOOLEAN,
     short_option_concatenated_oparg : BOOLEAN]

SemanticsInit == Main(Semantics, MaxSettingArgs)

SpecSemantics == SemanticsInit /\ [][Next]_vars

----------------------------------------------------------------------------
(* The other specifications leave the interpreter's variables alone.       *)

IdleInterpreter ==
    /\ programs = <<>> /\ semantics = DefaultSemantics /\ argi = <<>>
    /\ program = 0 /\ ip = 0 /\ call_stack = <<>> /\ converter = None /\ o = None
    /\ group = 0 /\ groups = <<>> /\ converters = EmptyDict /\ heap = <<>>
    /\ gheap = <<>> /\ id_to_group = EmptyDict /\ options = Options_init
    /\ force_positional = FALSE /\ root_force_positional = FALSE
    /\ command_converter = 0 /\ command_converter_key = None
    /\ op = None /\ option_program = 0 /\ pc = "idle"
    /\ outcome = "none" /\ message = None /\ result = None
    /\ args = <<>> /\ commands = EmptyDict /\ stage = "none" /\ appeal = 0

----------------------------------------------------------------------------
(* SpecGroup: one ArgumentGroup, as the compiler builds it and the         *)
(* interpreter counts into it.                                             *)

GroupInit ==
    /\ ag \in {ArgumentGroup(minimum, maximum, [t |-> "ag", of |-> 0], optional) :
                 minimum \in 0..MaxArity, maximum \in (0..MaxArity) \cup {Inf},
                 optional \in BOOLEAN}
    /\ IdleInterpreter /\ IdleFinalize /\ IdleCompile /\ IdleQueue /\ IdleExtra

GroupConsume ==
    /\ ag.count <= MaxArity
    /\ ag' = group_consume(ag)
    /\ UNCHANGED <<ivars, draft, fin, compiler, log, tree, xvars>>

GroupMarkLaden ==
    /\ ag' = group_mark_laden(ag)
    /\ UNCHANGED <<ivars, draft, fin, compiler, log, tree, xvars>>

GroupNext == GroupConsume \/ GroupMarkLaden

SpecGroup == GroupInit /\ [][GroupNext]_vars

----------------------------------------------------------------------------
(* SpecFinalize: the finalization pass on a draft instruction list.        *)

DraftGroupId == [program |-> "fn", n |-> 1]
DraftKey == ConverterKey(RootKeyPrefix, 1)

DraftAlphabet ==
    { I_consume_argument(TRUE, FALSE),
      I_set_group(DraftGroupId, 0, 0, FALSE, FALSE),
      I_set_group(DraftGroupId, 0, 0, TRUE, FALSE),
      I_set_group(DraftGroupId, 0, 0, TRUE, TRUE),
      I_label(1), I_jump_to_label(1), I_branch_on_o_to_label(1), I_no_op,
      I_load_converter(DraftKey), I_comment }

FinalizeInit ==
    /\ draft = <<>> /\ fin = None
    /\ IdleInterpreter /\ IdleGroup /\ IdleCompile /\ IdleQueue /\ IdleExtra

EmitDraft ==
    /\ fin = None /\ Len(draft) < MaxDraft
    /\ \E instr \in DraftAlphabet : draft' = Append(draft, instr)
    /\ UNCHANGED <<ivars, ag, fin, compiler, log, tree, xvars>>

Finalize ==
    /\ fin = None
    /\ fin' = finalize(draft \o <<I_end(1, "fn")>>, CharmProgram("fn", 1, 0, 0, None).total)
    /\ UNCHANGED <<ivars, ag, draft, compiler, log, tree, xvars>>

FinalizeNext == EmitDraft \/ Finalize

SpecFinalize == FinalizeInit /\ [][FinalizeNext]_vars

----------------------------------------------------------------------------
(* SpecCompile: one CharmCompiler taking the steps of compile_parameter    *)
(* that touch the duplicate-option bookkeeping, in any order.  log records *)
(* each step and the error it left.                                        *)

CompileInit ==
    /\ compiler = CharmCompiler(Globals0, "fn", RootKeyPrefix, None)
    /\ log = <<>>
    /\ IdleInterpreter /\ IdleGroup /\ IdleFinalize /\ IdleQueue /\ IdleExtra

CompileOptions ==
    /\ compiler.error = "none" /\ Len(log) < MaxEmit
    /\ \E name \in {"o", "p"} :
         /\ compiler' = compile_options(compiler, "fn", ConverterKey(RootKeyPrefix, 1), BoolOption(name),
                                  BoolOption(name).options, compiler.group_id)
         /\ log' = Append(log, [ev |-> "option", option |-> <<name>>, error |-> compiler'.error])
    /\ UNCHANGED <<ivars, ag, draft, fin, tree, xvars>>

CompileLeaf ==
    /\ compiler.error = "none" /\ Len(log) < MaxEmit
    /\ compiler' = compile_leaf(EmitBody(compiler, I_load_converter(ConverterKey(RootKeyPrefix, 1))),
                          Leaf("x", FALSE, FALSE, TRUE))
    /\ log' = Append(log, [ev |-> "consume", option |-> <<>>, error |-> compiler'.error])
    /\ UNCHANGED <<ivars, ag, draft, fin, tree, xvars>>

NewArgumentGroup ==
    /\ compiler.error = "none" /\ Len(log) < MaxEmit
    /\ compiler' = new_argument_group(compiler, TRUE)
    /\ log' = Append(log, [ev |-> "group", option |-> <<>>, error |-> compiler'.error])
    /\ UNCHANGED <<ivars, ag, draft, fin, tree, xvars>>

CompileNext == CompileOptions \/ CompileLeaf \/ NewArgumentGroup

SpecCompile == CompileInit /\ [][CompileNext]_vars

----------------------------------------------------------------------------
(* SpecQueue: Converter objects appended to and queued on their parents,   *)
(* as append_to_args does after create_converter, and promoted by a string *)
(* argument or by an option.  A converter is queued when its parameter is  *)
(* discretionary, and the parameter's name says so.                        *)

QueueParameter(discretionary) ==
    [name |-> IF discretionary THEN "discretionary" ELSE "required",
     cls |-> "Converter", callable |-> "p", default |-> None]

QueueInit ==
    /\ tree = <<NewConverter(QueueParameter(FALSE), TRUE)>>
    /\ IdleInterpreter /\ IdleGroup /\ IdleFinalize /\ IdleCompile /\ IdleExtra

\* create_converter, then append_to_args on a loaded parent
QueueAppendToArgs ==
    /\ Len(tree) < MaxConverters
    /\ \E parent \in 1..Len(tree), discretionary \in BOOLEAN :
         \E h \in {Append(tree, NewConverter(QueueParameter(discretionary), FALSE))} :
         \E H \in {IF discretionary
                   THEN queue_converter(h, parent, Ref(Len(h)))
                   ELSE append_converter(h, parent, Ref(Len(h)))} :
            H.err = "none" /\ tree' = H.h
    /\ UNCHANGED <<ivars, ag, draft, fin, compiler, log, xvars>>

\* consume_argument, then append_to_args of the string on a loaded converter
QueueString ==
    /\ \E self \in 1..Len(tree) :
         /\ \A j \in 1..Len(tree[self].args_converters) :
               tree[self].args_converters[j].t # "str"
         /\ tree' = append_converter(tree, self, StrVal(<<"s">>)).h
    /\ UNCHANGED <<ivars, ag, draft, fin, compiler, log, xvars>>

\* add_to_kwargs on a loaded converter that waits on a queue:
\* converter.unqueue(), then the entry
QueueOption ==
    /\ \E self \in 1..Len(tree) :
         /\ tree[self].queued # 0
         /\ KwGet(tree[self].kwargs_converters, "k") = None
         /\ tree' = [unqueue(tree, self, 0) EXCEPT
                       ![self].kwargs_converters = KwSet(@, "k", StrVal(<<"s">>))]
    /\ UNCHANGED <<ivars, ag, draft, fin, compiler, log, xvars>>

QueueNext == QueueAppendToArgs \/ QueueString \/ QueueOption

SpecQueue == QueueInit /\ [][QueueNext]_vars

----------------------------------------------------------------------------
(* SpecRecompile: one process compiling callables one after the other with *)
(* charm_compile; process holds CharmProgram.next_id, label_id_counter and *)
(* every program compiled so far.                                          *)

Callables ==
    {Fn_abcv, Fn_bundle, Fn_f, Fn_nested, Fn_global, Fn_run, Fn_multi, Fn_dup, Fn_pair,
     Fn_no_kwargs}

RecompileInit ==
    /\ process = Globals0 /\ compiled = <<>>
    /\ IdleInterpreter /\ IdleGroup /\ IdleFinalize /\ IdleCompile /\ IdleQueue

Compile ==
    /\ Len(compiled) < MaxCompiles
    /\ \E callable \in Callables : \E c \in {charm_compile(process, callable)} :
          /\ process' = c.G
          /\ compiled' = Append(compiled, [callable |-> callable, program |-> c.program.id,
                                           error |-> c.error])
    /\ UNCHANGED <<ivars, ag, draft, fin, compiler, log, tree>>

RecompileNext == Compile

SpecRecompile == RecompileInit /\ [][RecompileNext]_vars

----------------------------------------------------------------------------
(* Properties of the interpreter, checked under Spec.                      *)

Token_1 == <<"1">>
Token_2 == <<"2">>
Token_v == <<"-", "v">>
Token_x == <<"-", "x">>
Token_dd == <<"-", "-">>
Token_abc == <<"-", "a", "b", "c">>
Token_feq == <<"-", "f", "=", "h", "i">>
Token_fhi == <<"-", "f", "h", "i">>
Token_hi == <<"h", "i">>

Finished == pc = "done"
Returned == pc = "done" /\ outcome \in {"returned", "parsed"}
Root == heap[command_converter]

\* what a finished run leaves behind: how it ended, the converter tree, the
\* argument groups, the option scopes and the remaining input
Outcome(m) ==
    [outcome |-> m.outcome, message |-> m.message, result |-> m.result,
     heap |-> m.heap, gheap |-> m.gheap, id_to_group |-> m.id_to_group,
     options |-> m.options, argi |-> m.argi]

\* the same, leaving out the input left over by a run that raised
OutcomeOfRun(m) ==
    IF m.outcome = "returned" THEN Outcome(m)
    ELSE [Outcome(m) EXCEPT !.argi = <<>>]

\* C1: fn(a, b, c=1, *, v=False) run on ["1","2","-v"] returns the root
\* converter without a usage error; its positional list is exactly
\* ["1","2"], its keyword map holds exactly the entry v, a boolean option
\* converter created once, which renders True.
C1_Theorem ==
    (appeal = 1 /\ args = <<Token_1, Token_2, Token_v>> /\ Finished) =>
        /\ outcome \in {"returned", "parsed"}
        /\ result = Ref(command_converter)
        /\ Root.name = "fn"
        /\ Root.args_converters = <<StrVal(Token_1), StrVal(Token_2)>>
        /\ Len(Root.kwargs_converters) = 1
        /\ Root.kwargs_converters[1].name = "v"
        /\ Root.kwargs_converters[1].value.t = "conv"
        /\ heap[Root.kwargs_converters[1].value.id].cls = "BooleanOptionConverter"
        /\ BooleanOptionConverter_execute(heap[Root.kwargs_converters[1].value.id])
              = [t |-> "bool", v |-> TRUE]
        /\ Cardinality({j \in 1..Len(heap) : heap[j].name = "v"}) = 1

C1_Witness ==
    appeal = 1 /\ args = <<Token_1, Token_2, Token_v>> /\ Finished /\ outcome = "returned"

AtBundle == pc = "phase2" /\ argi # <<>> /\ Head(argi) = Token_abc
Unbundled == <<<<"-", "a">>, <<"-", "b">>, <<"-", "c">>>>
SameAsUnbundled ==
    OutcomeOfRun(interpreter_call(M))
        = OutcomeOfRun(interpreter_call([M EXCEPT !.argi = Unbundled \o Tail(argi)]))

\* C2 as stated: whatever the tokens before it, a run that is about to read
\* "-abc" ends like the run that reads "-a", "-b", "-c" in its place.
C2_Original == AtBundle => SameAsUnbundled

\* C2: when "-abc" is read in option position (no oparg pending, "--" not
\* seen), the run ends like the run that reads "-a", "-b", "-c" in its
\* place: same outcome, converter tree, argument groups, option scopes and,
\* when the run returns, the same remaining input.
C2_Theorem == (AtBundle /\ ~is_positional_argument(M, Token_abc)) => SameAsUnbundled

C2_Witness ==
    /\ AtBundle /\ ~is_positional_argument(M, Token_abc)
    /\ Len(args) = 3 /\ args[2] = Token_abc
    /\ Let(interpreter_call(M), LAMBDA r :
            /\ r.outcome = "returned"
            /\ Len(r.heap[r.result.id].kwargs_converters) = 3)


AtF ==
    /\ appeal = 3 /\ pc = "phase2" /\ argi # <<>>
    /\ Head(argi) \in {Token_feq, Token_fhi}
    /\ ~is_positional_argument(M, Head(argi))

\* the run from the current state with token a in place of the next token
RunWith(a) == interpreter_call([M EXCEPT !.argi = <<a>> \o Tail(argi)])

\* the converters created for -f from now on received exactly the value "hi"
DeliversHi(r) ==
    /\ \E id \in (Len(heap) + 1)..Len(r.heap) : r.heap[id].name = "f"
    /\ \A id \in (Len(heap) + 1)..Len(r.heap) :
          r.heap[id].name = "f" => r.heap[id].args_converters = <<StrVal(Token_hi)>>

\* C3: for -f taking one optional value (program minimum 0, maximum 1),
\* under the default semantics "-f=hi" and "-fhi" both invoke -f and
\* deliver "hi" to -f's sub-program, and the two runs end with identical
\* converter trees; on the command lines ["-f=hi"] and ["-fhi"] the run
\* returns.
C3_Theorem ==
    AtF =>
        Let(RunWith(Token_feq), LAMBDA r1 :
        Let(RunWith(Token_fhi), LAMBDA r2 :
            /\ semantics = DefaultSemantics
            /\ programs[2].total.minimum = 0 /\ programs[2].total.maximum = 1
            /\ Outcome(r1) = Outcome(r2)
            /\ (r1.outcome = "returned" => DeliversHi(r1) /\ DeliversHi(r2))
            /\ (Len(args) = 1 => r1.outcome = "returned" /\ r1.argi = <<>>)))

C3_Witness ==
    /\ AtF /\ args = <<Token_fhi>>
    /\ Let(RunWith(Token_fhi), LAMBDA r : r.outcome = "returned" /\ DeliversHi(r))

\* the step reads a token as a positional one: it stores it in o, or it
\* returns leaving it in the input
ReadsPositional ==
    \/ argi' = Tail(argi) /\ o' = StrVal(Head(argi)) /\ heap' = heap
                          /\ call_stack' = call_stack /\ outcome' = "running"
    \/ argi' = argi /\ outcome' = "returned"

\* the step reads "--" in option position: nothing is delivered, the flag
\* is set on the interpreter and on the root
ReadsDoubleDash ==
    /\ argi' = Tail(argi) /\ o' = o /\ heap' = heap /\ converter' = converter
    /\ outcome' = "running" /\ force_positional' /\ root_force_positional'

\* C4: a "--" read in option position (no oparg pending) is not delivered
\* as a value; from then on the flag stays set, on the root too, every later
\* token is read as a positional one, never as an option, also by the
\* interpreter of a later command; on ["-v","--","-x"] the token "-x" is
\* stored as the first positional value.
C4_Theorem ==
    /\ []((appeal = 1 /\ args = <<Token_v, Token_dd, Token_x>> /\ Finished) =>
             Root.args_converters = <<StrVal(Token_x)>>)
    /\ [][/\ (pc = "phase2" /\ argi # <<>> /\ Head(argi) = Token_dd
                /\ ~is_oparg(M) /\ ~force_positional) => ReadsDoubleDash
          /\ root_force_positional =>
                /\ root_force_positional'
                /\ (pc' # "done" => force_positional')
                /\ (pc = "phase2" /\ argi # <<>> => ReadsPositional)
                /\ Len(call_stack') <= Len(call_stack)]_vars

C4_Witness ==
    /\ root_force_positional /\ stage = "command"
    /\ o = StrVal(Token_x) /\ args = <<Token_dd, <<"r">>, Token_x>>

\* C5 as stated: after -a was invoked and mapped its child -b, and a
\* positional token was consumed, presenting -b raises "unknown option".
C5_Original ==
    (appeal = 4 /\ args = <<<<"-", "a">>, <<"p">>, <<"-", "b">>>> /\ Finished) =>
        outcome = "AppealUsageError" /\ message.t = "unknown option"

\* C5: after -a was invoked and mapped its child -b, and a positional token
\* was consumed, presenting -b raises a usage error saying that -b can't be
\* used here and must be used immediately after -a; "unknown option" is
\* raised for an option that no program records, as -x on ["-x"].
C5_Theorem ==
    /\ (appeal = 4 /\ args = <<<<"-", "a">>, <<"p">>, <<"-", "b">>>> /\ Finished) =>
          /\ outcome = "AppealUsageError"
          /\ message = [t |-> "can't be used here, it must be used immediately after",
                        option |-> <<"-", "b">>, after |-> <<<<"-", "a">>>>]
          /\ Root.args_converters = <<StrVal(<<"p">>)>>
    /\ (appeal = 1 /\ args # <<>> /\ Head(args) = Token_x /\ Finished) =>
          /\ outcome = "AppealUsageError"
          /\ message = [t |-> "unknown option", option |-> Token_x]

C5_Witness ==
    /\ appeal = 4 /\ args = <<<<"-", "a">>, <<"p">>, <<"-", "b">>>> /\ Finished
    /\ outcome = "AppealUsageError" /\ options.stack = <<>>

\* C6: when the loop ends because the input is exhausted, the group in the
\* group register is validated: not satisfied, the run raises a usage error
\* reporting that group's minimum and maximum; satisfied, the run returns
\* the root converter.
C6_Theorem ==
    [][pc = "exit" =>
         /\ argi = <<>> /\ group # 0 /\ pc' = "done"
         /\ IF satisfied(gheap[group])
            THEN outcome' = "returned" /\ result' = Ref(command_converter)
                 /\ heap[command_converter].is_command
            ELSE /\ outcome' = "AppealUsageError"
                 /\ message'.t = "requires arguments in this argument group."
                 /\ message'.minimum = gheap[group].minimum
                 /\ message'.maximum = gheap[group].maximum]_vars

C6_Witness ==
    /\ Finished /\ outcome = "AppealUsageError"
    /\ message.t = "requires arguments in this argument group."
    /\ argi = <<>> /\ group # 0 /\ ~satisfied(gheap[group])

----------------------------------------------------------------------------
(* Properties of ArgumentGroup, checked under SpecGroup.                   *)

SatisfiedAsSpecified(g) ==
    \/ g.optional /\ g.count = 0 /\ ~g.laden
    \/ g.minimum <= g.count /\ g.count <= g.maximum

\* C7: for every ArgumentGroup state, every combination of optional, laden,
\* minimum, maximum and count >= 0, satisfied() is true if and only if
\* (optional and count = 0 and not laden) or (minimum <= count <= maximum).
C7_Theorem ==
    /\ satisfied(ag) <=> SatisfiedAsSpecified(ag)
    /\ \A count \in 0..(MaxArity + 1), laden \in BOOLEAN :
          satisfied([ag EXCEPT !.count = count, !.laden = laden])
             <=> SatisfiedAsSpecified([ag EXCEPT !.count = count, !.laden = laden])

C7_Witness ==
    /\ ag.optional /\ ag.laden /\ ag.count = 0 /\ ag.minimum > 0
    /\ ~satisfied(ag)

----------------------------------------------------------------------------
(* Properties of the duplicate-option bookkeeping, checked under           *)
(* SpecCompile.                                                            *)

\* steps i < j of log declare the same option in one argument group, with no
\* declaration of that option between them
DeclaredTwice(i, j) ==
    /\ i < j /\ log[i].ev = "option" /\ log[j].ev = "option"
    /\ log[i].option = log[j].option
    /\ \A k \in (i + 1)..(j - 1) :
          log[k].ev # "group" /\ ~(log[k].ev = "option" /\ log[k].option = log[i].option)

ConsumeBetween(i, j) == \E k \in (i + 1)..(j - 1) : log[k].ev = "consume"

\* C8: within one argument group, declaring the same option twice compiles
\* when a ConsumeArgument is emitted between the two declarations, and
\* raises a configuration error when none is emitted between them, whatever
\* was emitted before the first declaration.
C8_Original ==
    \A i \in DOMAIN log, j \in DOMAIN log :
        DeclaredTwice(i, j) => (log[j].error = "none" <=> ConsumeBetween(i, j))

\* the compiler accepted two declarations of -o with no ConsumeArgument
\* between them, as it does on fn(a, b:A, c:B) with A(*, o) and B(*, o)
C8_Witness ==
    /\ Len(log) = 3 /\ log[1].ev = "consume"
    /\ DeclaredTwice(2, 3) /\ ~ConsumeBetween(2, 3)
    /\ compiler.error = "none"
    /\ charm_compile(Globals0, Fn_dup).error = "none"

----------------------------------------------------------------------------
(* Properties of the discretionary queue, checked under SpecQueue.         *)

Queued(h, p) == {h[p].args_queue[k] : k \in 1..Len(h[p].args_queue)}

\* C9: when a converter Y queued on a parent is promoted, every converter
\* queued on that parent before Y is flushed first: the parent's
\* args_converters receives the queue up to and including Y, in queue order
\* (X immediately before Y when X was queued just before Y), they leave the
\* queue and stop waiting, and the converters queued after Y stay queued.
C9_Theorem ==
    [][\A p \in 1..Len(tree) : \A n \in 1..Len(tree[p].args_queue) :
          (/\ tree[p].args_queue[n] \notin Queued(tree', p)
           /\ \A k \in (n + 1)..Len(tree[p].args_queue) :
                 tree[p].args_queue[k] \in Queued(tree', p))
          => /\ tree'[p].args_converters =
                   tree[p].args_converters \o [k \in 1..n |-> Ref(tree[p].args_queue[k])]
             /\ tree'[p].args_queue = SubSeq(tree[p].args_queue, n + 1, Len(tree[p].args_queue))
             /\ \A k \in 1..n : tree'[tree[p].args_queue[k]].queued = 0
             /\ \A k \in (n + 1)..Len(tree[p].args_queue) :
                   tree'[tree[p].args_queue[k]].queued = p]_vars

\* converters 2, 3 and 4 were queued on the root in that order; 3 received a
\* string and 2 nothing: 2 was flushed before 3, and 4 is still queued
C9_Witness ==
    /\ Len(tree) = 4
    /\ \A c \in 2..4 : tree[c].name = "discretionary"
    /\ tree[1].args_converters = <<Ref(2), Ref(3)>>
    /\ tree[1].args_queue = <<4>> /\ tree[4].queued = 1
    /\ tree[2].args_converters = <<>> /\ tree[2].kwargs_converters = <<>>
    /\ tree[3].args_converters = <<StrVal(<<"s">>)>>
    /\ tree[2].queued = 0 /\ tree[3].queued = 0

----------------------------------------------------------------------------
(* Properties of the finalization pass, checked under SpecFinalize.        *)

Repeats(p) == \E j \in 1..Len(p) : p[j].op = "set_group" /\ p[j].repeating

\* C10: for every program finalize produces, the whole-program minimum is
\* at most the whole-program maximum, and if the program holds a SetGroup
\* marked repeating the maximum is math.inf, however many ConsumeArgument
\* instructions follow it.
C10_Theorem ==
    (fin # None /\ fin.error = "none") =>
        /\ fin.total.minimum <= fin.total.maximum
        /\ Repeats(draft) => fin.total.maximum = Inf

C10_Witness ==
    /\ fin # None /\ fin.error = "none" /\ fin.total.maximum = Inf
    /\ Len(draft) = 3 /\ draft[1].op = "set_group" /\ draft[1].repeating
    /\ draft[2].op = "consume_argument" /\ draft[3].op = "consume_argument"

----------------------------------------------------------------------------
(* Properties of repeated compilation, checked under SpecRecompile.        *)

CompiledTwice(i, j) ==
    /\ i < j /\ compiled[i].callable = compiled[j].callable
    /\ compiled[i].error = "none" /\ compiled[j].error = "none"

\* the instructions of a program with the program ids taken out: End's id,
\* and map_option's program given by its own instructions
RECURSIVE InstructionsButIds(_, _)
InstructionsButIds(P, id) ==
    [k \in 1..Len(P[id].opcodes) |->
        Let(P[id].opcodes[k], LAMBDA instr :
        IF instr.op = "end" THEN [instr EXCEPT !.id = 0]
        ELSE IF instr.op = "map_option"
        THEN [instr EXCEPT !.program = InstructionsButIds(P, instr.program)]
        ELSE instr)]

AppealConfigurationErrors ==
    {"annotation can't be used directly", "multiple definitions are ambiguous",
     "argument group initialized with multiple definitions",
     "keyword-only argument doesn't have a default value",
     "there are options that must go into **kwargs", "label used twice", "unknown label"}

\* options are declared on the callable for names that are no parameter of
\* it, and it has no variadic-keyword parameter
OptionsWithoutKwargs(callable) ==
    /\ callable.unseen # <<>>
    /\ \A k \in 1..Len(callable.sig) : callable.sig[k].kind # "var_keyword"

\* C16 as stated: when options are declared for a parameter name that is no
\* parameter of the callable, and the callable has no variadic-keyword
\* parameter, compiling it fails with AppealConfigurationError and with no
\* other kind of failure.
C16_Original ==
    \A i \in DOMAIN compiled :
        OptionsWithoutKwargs(compiled[i].callable)
            => compiled[i].error \in AppealConfigurationErrors

\* fn(a, *, v=False) with an option declared for w was compiled, and the
\* compilation failed with UnboundLocalError
C16_Witness ==
    \E i \in DOMAIN compiled :
        /\ compiled[i].callable = Fn_no_kwargs
        /\ OptionsWithoutKwargs(compiled[i].callable)
        /\ compiled[i].error = "UnboundLocalError"

----------------------------------------------------------------------------
(* Properties of the compiled programs during a run, checked under Spec.   *)

\* the set_group instructions of the programs, as <<program id, index>>
SetGroups ==
    UNION {{<<id, k>> : k \in {j \in 1..Len(programs[id].opcodes) :
                                 programs[id].opcodes[j].op = "set_group"}} :
           id \in DOMAIN programs}

\* C12: running the interpreter never changes a compiled program.  No step
\* of a run changes a program (instructions, option table, aggregate group,
\* the groups held by set_group instructions), and the group of every
\* set_group instruction keeps count = 0 and laden = false; counters and
\* laden flags change on the copies made when a set_group is executed.
C12_Theorem ==
    /\ [](\A x \in SetGroups :
             /\ programs[x[1]].opcodes[x[2]].group.count = 0
             /\ ~programs[x[1]].opcodes[x[2]].group.laden)
    /\ [][programs' = programs]_vars

C12_Witness ==
    /\ Finished /\ outcome = "AppealUsageError"
    /\ \E x \in SetGroups : \E k \in DOMAIN gheap :
          /\ gheap[k].id = programs[x[1]].opcodes[x[2]].group.id
          /\ gheap[k].count > 0 /\ gheap[k].laden
          /\ programs[x[1]].opcodes[x[2]].group.count = 0

\* the runs of the global callable and of the selected command have
\* returned (a command is selected when commands are defined), and tokens
\* remain
LeftoverTokens ==
    /\ pc = "done" /\ outcome = "returned" /\ argi # <<>>
    /\ stage = "command" \/ commands = EmptyDict

\* C17: if tokens remain in the input after the global program and the
\* selected command have been parsed, parse raises a usage error listing the
\* leftover tokens, and parse never ends normally (handing over to convert
\* and execute) while tokens remain.
C17_Theorem ==
    /\ [][LeftoverTokens =>
            /\ pc' = "done" /\ outcome' = "AppealUsageError"
            /\ message' = [t |-> "leftover cmdline arguments!", argi |-> argi]]_vars
    /\ [](outcome = "parsed" => argi = <<>>)

\* command r took its argument and a token is left: parse has raised
C17_Witness ==
    /\ appeal = 5 /\ stage = "command" /\ Finished /\ outcome = "AppealUsageError"
    /\ message = [t |-> "leftover cmdline arguments!", argi |-> argi] /\ argi # <<>>

----------------------------------------------------------------------------
(* Termination of the runs, checked under SpecTermination.                 *)

\* the size of the remaining input: its characters and its tokens
RECURSIVE InputSize(_)
InputSize(tokens) ==
    IF tokens = <<>> THEN 0 ELSE Len(Head(tokens)) + 1 + InputSize(Tail(tokens))

----------------------------------------------------------------------------
(* Properties of runs under any parsing semantics, checked under           *)
(* SpecSemantics.                                                          *)

\* C13 as stated: no run on a compiled program raises a configuration error,
\* whatever the tokens and the parsing semantics; a run that fails raises a
\* usage error.
C13_Original ==
    Finished => outcome \in {"returned", "parsed", "AppealUsageError"}

\* a run that read an option token with option_space_oparg = False has
\* raised AppealConfigurationError, on a program that compiled
C13_Witness ==
    /\ Finished /\ outcome = "AppealConfigurationError"
    /\ ~semantics.option_space_oparg
    /\ message = [t |-> "option_space_oparg must be True"]
    /\ args # <<>>

\* the next token is read in option position and is a short option known in
\* the current scope, followed by a non-empty remainder without "="
Remainder == SubSeq(Head(argi), 3, Len(Head(argi)))
ShortOption ==
    Options_getitem(options, <<Head(argi)[2]>>, programs[program].options)
AtShortWithRemainder ==
    /\ pc = "phase2" /\ argi # <<>>
    /\ semantics.option_space_oparg
    /\ ~is_positional_argument(M, Head(argi))
    /\ ~startswith(Head(argi), <<"-", "-">>)
    /\ Len(Head(argi)) > 2 /\ IndexOf(Head(argi), "=") = 0
    /\ ShortOption.found
TakesValues(minimum, maximum) ==
    /\ programs[ShortOption.program].total.minimum = minimum
    /\ programs[ShortOption.program].total.maximum = maximum
NotEntered == program' = program /\ call_stack' = call_stack /\ ip' = ip
NotAllowed ==
    /\ pc' = "done" /\ outcome' = "AppealUsageError" /\ NotEntered
    /\ message'.t \in {"isn't allowed, takes arguments, it must be last",
                       "isn't allowed, must be last because it takes an argument"}

\* C14: for a short-option token -xREST with non-empty REST and no "=", read
\* in option position with -x known: when -x takes no value, "-REST" is
\* pushed back as the next token; when -x takes exactly one optional value
\* (and short_option_concatenated_oparg is set), REST is pushed back as the
\* value and -x's program is entered unless the run raises; when -x takes
\* two or more values, or exactly one required value, the run raises a usage
\* error and -x's program is not entered.  REST becomes a value in no other
\* case.
C14_Theorem ==
    [][AtShortWithRemainder =>
        /\ programs[ShortOption.program].total.maximum = 0
              => argi' = <<(<<"-">> \o Remainder)>> \o Tail(argi)
        /\ TakesValues(0, 1) /\ semantics.short_option_concatenated_oparg
              => /\ argi' = <<Remainder>> \o Tail(argi) \/ outcome' # "running"
                 /\ outcome' = "running" => program' = ShortOption.program
                 /\ ~NotAllowed
        /\ programs[ShortOption.program].total.maximum >= 2 \/ TakesValues(1, 1)
              => NotAllowed /\ argi' = Tail(argi)
        /\ outcome' = "running" /\ argi' = <<Remainder>> \o Tail(argi)
              => TakesValues(0, 1)]_vars

\* -fhi was read, f taking one optional value: the run is in f's program and
\* "hi" is the next token
C14_Witness ==
    /\ appeal = 3 /\ args = <<Token_fhi>> /\ argi = <<Token_hi>>
    /\ pc = "phase1" /\ outcome = "running" /\ call_stack # <<>>
    /\ programs[program].option # None

\* the next token is -x=VALUE, read in option position with -x known in the
\* current scope (short_option_equals_oparg set)
EqualsValue == SubSeq(Head(argi), 4, Len(Head(argi)))
AtShortEquals ==
    /\ pc = "phase2" /\ argi # <<>>
    /\ semantics.option_space_oparg /\ semantics.short_option_equals_oparg
    /\ ~is_positional_argument(M, Head(argi))
    /\ ~startswith(Head(argi), <<"-", "-">>)
    /\ IndexOf(Head(argi), "=") = 3
    /\ ShortOption.found
InvokedWith(value) ==
    /\ outcome' = "running" /\ pc' = "phase1"
    /\ program' = ShortOption.program /\ ip' = 0
    /\ argi' = <<value>> \o Tail(argi)

----------------------------------------------------------------------------
(* Properties of the materialized positional arguments, checked under Spec. *)

\* the program that creates the command converter
RootProgram ==
    programs[CHOOSE id \in DOMAIN programs :
                \E i \in 1..Len(programs[id].opcodes) :
                   /\ programs[id].opcodes[i].op = "create_converter"
                   /\ programs[id].opcodes[i].key = command_converter_key]
RootOpcodes == RootProgram.opcodes

\* the key the converter register holds when instruction i executes
LoadedAt(i) ==
    LET L == {j \in 1..i : RootOpcodes[j].op = "load_converter"} IN
    IF L = {} THEN None
    ELSE RootOpcodes[CHOOSE j \in L : \A k \in L : k <= j].key

\* the append_to_args instructions that hand a child to the command
\* converter, in program order: the order of its parameters
HandedToRoot ==
    {i \in 1..Len(RootOpcodes) :
        RootOpcodes[i].op = "append_to_args" /\ LoadedAt(i) = command_converter_key}
HandedStrings == {i \in HandedToRoot : RootOpcodes[i - 1].op = "consume_argument"}

\* the instruction that handed over the k-th entry of the command converter's
\* args_converters: a converter by its parameter, the n-th string by the n-th
\* instruction appending a string (the last one when it repeats)
HandedBy(k) ==
    LET e == Root.args_converters[k]
        n == Cardinality({j \in 1..k : Root.args_converters[j].t = "str"})
    IN IF e.t = "conv"
       THEN CHOOSE i \in HandedToRoot : RootOpcodes[i].parameter = heap[e.id].name
       ELSE CHOOSE i \in HandedStrings :
               \/ Cardinality({j \in HandedStrings : j <= i}) = n
               \/ /\ Cardinality(HandedStrings) < n
                  /\ \A j \in HandedStrings : j <= i

\* C19: the children in the command converter's args_converters appear in
\* the order in which they were handed to it (the order of its parameters):
\* no child handed later precedes a child handed earlier, also when a child
\* was appended directly while an earlier sibling was still queued.
C19_Original ==
    command_converter # 0 =>
        \A j, k \in 1..Len(Root.args_converters) :
            j < k => HandedBy(j) <= HandedBy(k)

\* def A(*, o=False); def fn(a:A=None, b="") on ["x", "-o"] returned with the
\* string of b first and the converter of a, promoted by -o, behind it
C19_Witness ==
    /\ Returned /\ command_converter # 0
    /\ args = << <<"x">>, <<"-", "o">> >>
    /\ Len(Root.args_converters) = 2
    /\ Root.args_converters[1] = StrVal(<<"x">>)
    /\ Root.args_converters[2].t = "conv"
    /\ heap[Root.args_converters[2].id].name = "a"
    /\ KwGet(heap[Root.args_converters[2].id].kwargs_converters, "o") # None


----------------------------------------------------------------------------
(* Properties of the argument groups when the input runs out, checked      *)
(* under Spec.                                                             *)

\* the argument groups the run entered for the required parameters of the
\* root program
RequiredRootGroups ==
    {j \in 1..Len(gheap) : gheap[j].id.program = RootProgram.name /\ ~gheap[j].optional}

\* C20: when the run returns normally with the input exhausted, every
\* required positional parameter of the root program has received a token:
\* the root program's non-optional group has count >= its minimum, also
\* when the input ran out inside the program of an option.
C20_Original ==
    (Returned /\ argi = <<>> /\ command_converter # 0) =>
        \A j \in RequiredRootGroups : gheap[j].count >= gheap[j].minimum

\* def fopt(s=""); def fn(p, *, f:fopt=None) on ["-f"] returned: the input
\* ran out at the consume_argument of -f, the group register holds the
\* optional group of -f, and p never received a token
C20_Witness ==
    /\ Returned /\ args = << <<"-", "f">> >> /\ argi = <<>>
    /\ command_converter # 0 /\ Root.args_converters = <<>>
    /\ KwGet(Root.kwargs_converters, "f") # None
    /\ GroupAt(M, group).optional
    /\ \E j \in RequiredRootGroups : gheap[j].minimum = 1 /\ gheap[j].count = 0


----------------------------------------------------------------------------
(* Properties of the option scopes, checked under Spec.                    *)

\* the next token is read in option position and names a short option
AtOption ==
    /\ pc = "phase2" /\ argi # <<>>
    /\ ~is_positional_argument(M, Head(argi))
    /\ Head(argi) # <<"-", "-">> /\ Len(Head(argi)) >= 2
\* the innermost scope that maps it, counted from 1 for the base
ResolvedAt ==
    CHOOSE j \in 1..Len(Scopes(options)) :
        /\ <<Head(argi)[2]>> \in DOMAIN Scopes(options)[j].options
        /\ \A k \in (j + 1)..Len(Scopes(options)) :
              <<Head(argi)[2]>> \notin DOMAIN Scopes(options)[k].options
\* the step enters the program of an option
Entered ==
    /\ pc' = "phase1" /\ outcome' = "running"
    /\ Len(call_stack') = Len(call_stack) + 1 /\ ip' = 0

\* C21: invoking an option resolved at scope level d (0 = base) pops the
\* option scopes exactly back to level d and pushes exactly one fresh empty
\* scope: the option's program is entered with d + 1 scopes on the stack
\* below an empty current scope with a token never used before, and the
\* scopes at levels <= d are the ones they were.
C21_Theorem ==
    [][(AtOption /\ ShortOption.found /\ Entered) =>
          /\ Len(options'.stack) = ResolvedAt
          /\ options'.stack = SubSeq(Scopes(options), 1, ResolvedAt)
          /\ options'.options = EmptyDict
          /\ options'.token = options.next_token
          /\ \A j \in 1..Len(options'.stack) : options'.stack[j].token < options'.token]_vars

\* def A(*, b=False); def fn(p, *, a:A=None) on ["-a", "-b", "-a"]: the second
\* -a is resolved at the base below the scopes of -a and -b, both are
\* discarded and the program of -a starts in the fourth scope created
C21_Witness ==
    /\ appeal = 4 /\ args = << <<"-", "a">>, <<"-", "b">>, <<"-", "a">> >>
    /\ argi = <<>> /\ pc = "phase1" /\ ip = 0 /\ Len(call_stack) = 1
    /\ Len(options.stack) = 1 /\ options.stack[1].token = 1
    /\ options.options = EmptyDict /\ options.token = 4


\* the next token is consumed by the pending consume_argument
AtPositional ==
    /\ pc = "phase2" /\ argi # <<>>
    /\ is_positional_argument(M, Head(argi)) /\ op # None

\* C22: consuming a positional token that is not an oparg empties the option
\* scopes down to the base (the base scope becomes the current one, with
\* its mappings and its token unchanged, and nothing is left on the stack);
\* consuming a token as an oparg leaves the option scopes unchanged.
C22_Theorem ==
    [][AtPositional =>
          IF is_oparg(M) THEN options' = options
          ELSE /\ options'.stack = <<>>
               /\ options'.options = Scopes(options)[1].options
               /\ options'.token = Scopes(options)[1].token
               /\ options'.next_token = options.next_token]_vars

\* def A(*, b=False); def fn(p, *, a:A=None) on ["-a", "-b", "p"]: p was
\* consumed below the scopes of -a and -b, and only the base scope, which
\* maps -a, is left
C22_Witness ==
    /\ appeal = 4 /\ args = << <<"-", "a">>, <<"-", "b">>, <<"p">> >>
    /\ argi = <<>> /\ o = StrVal(<<"p">>) /\ outcome = "running"
    /\ options.stack = <<>> /\ options.token = 1 /\ options.next_token = 4
    /\ DOMAIN options.options = {<<"a">>}


----------------------------------------------------------------------------
(* Properties of child options, checked under SpecTermination.             *)

Resolvable(O, key) == \E j \in 1..Len(Scopes(O)) : key \in DOMAIN Scopes(O)[j].options

\* the program a lookup of key yields: the one mapped by the innermost scope
\* that holds key, 0 when no scope holds it
Resolves(O, key) ==
    IF ~Resolvable(O, key) THEN 0
    ELSE Scopes(O)[CHOOSE j \in 1..Len(Scopes(O)) :
                      /\ key \in DOMAIN Scopes(O)[j].options
                      /\ \A k \in (j + 1)..Len(Scopes(O)) :
                            key \notin DOMAIN Scopes(O)[k].options].options[key].program

\* the options mapped by the program of an option: those of the scopes above
\* scope j - 1, where the option that mapped them was resolved
ChildOptions(j) == IF j <= Len(Scopes(options)) THEN DOMAIN Scopes(options)[j].options ELSE {}

\* the options the program in the program register maps
MappedByProgram ==
    {programs[program].opcodes[k].option :
        k \in {l \in 1..Len(programs[program].opcodes) :
                  programs[program].opcodes[l].op = "map_option"}}

\* C23: a child option B, mapped by the program of option A in the scope
\* above the one that resolved A, stays resolvable (a lookup of its name
\* yields its program) while B itself, another child of A or an oparg is
\* processed, and while their programs run; it stops being resolvable as
\* soon as an option resolved at A's level or at an outer level is invoked;
\* and once the program of A is entered (again), it maps B (again) in the
\* current scope.
C23_Theorem ==
    /\ [][\A j \in 2..Len(Scopes(options)) : \A B \in ChildOptions(j) :
            Resolves(options, B) = Scopes(options)[j].options[B].program =>
            /\ (AtOption /\ ShortOption.found /\ Entered /\ ResolvedAt >= j)
                  => Resolves(options', B) = Resolves(options, B)
            /\ (AtPositional /\ is_oparg(M)) => Resolves(options', B) = Resolves(options, B)
            /\ (pc = "phase1" /\ pc' # "done") => Resolves(options', B) = Resolves(options, B)
            /\ (AtOption /\ ShortOption.found /\ Entered /\ ResolvedAt < j)
                  => Resolves(options', B) # Resolves(options, B)]_vars
    /\ (pc = "phase1" /\ ip = 0 /\ call_stack # <<>> /\ outcome = "running")
          ~> (pc = "phase1" /\ MappedByProgram \subseteq DOMAIN options.options)

\* def A(*, b=False, c=""); def fn(*, a:A=None, s=False) on ["-a", "-s", "-a"]:
\* -s discarded the scope in which -a had mapped -b and -c, and the second
\* -a has mapped them again, in the fourth scope created
C23_Witness ==
    /\ appeal = 10 /\ args = << <<"-", "a">>, <<"-", "s">>, <<"-", "a">> >>
    /\ argi = <<>> /\ outcome = "running"
    /\ options.token = 4 /\ Len(options.stack) = 1
    /\ DOMAIN options.options = {<<"b">>, <<"c">>}


----------------------------------------------------------------------------
(* Properties of option lookup, checked under Spec.                        *)

OptionKey == <<Head(argi)[2]>>
\* what the option table of the program in the program register records
\* for the key: the option it must follow, if any
RecordedParent ==
    IF OptionKey \in DOMAIN programs[program].options
    THEN programs[program].options[OptionKey] ELSE None
LookupMessages ==
    {"unknown option", "can't be used here, it must be used immediately after"}

\* C24: an option name is resolved through the option scopes from the
\* innermost outwards, and the first scope that maps it wins: when its
\* program is entered, it is the program mapped by the innermost scope that
\* holds the name, and no lookup error is raised.  When no scope maps it,
\* the run raises a usage error: it names the option after which the name
\* must be used when the option table of the active program records one,
\* and reports an unknown option otherwise.
C24_Theorem ==
    [][AtOption =>
          IF Resolvable(options, OptionKey)
          THEN /\ Entered =>
                    /\ program' = Scopes(options)[ResolvedAt].options[OptionKey].program
                    /\ option_program' = program'
               /\ ~(outcome' = "AppealUsageError" /\ message'.t \in LookupMessages)
          ELSE /\ pc' = "done" /\ outcome' = "AppealUsageError"
               /\ call_stack' = call_stack /\ options' = options
               /\ message' =
                    IF RecordedParent # None /\ RecordedParent.names # <<>>
                    THEN [t |-> "can't be used here, it must be used immediately after",
                          option |-> <<"-">> \o OptionKey, after |-> RecordedParent.names]
                    ELSE [t |-> "unknown option", option |-> <<"-">> \o OptionKey]]_vars

\* def A(*, s=False); def fn(*, a:A=None, s=False) on ["-a", "-s"]: -s is
\* mapped by the base scope and by the scope of -a; the program entered is
\* the one of A's -s, resolved in the scope of -a, which stays on the stack
C24_Witness ==
    /\ appeal = 11 /\ args = << <<"-", "a">>, <<"-", "s">> >>
    /\ argi = <<>> /\ pc = "phase1" /\ ip = 0 /\ Len(call_stack) = 1
    /\ Len(options.stack) = 2
    /\ <<"s">> \in DOMAIN options.stack[1].options
    /\ <<"s">> \in DOMAIN options.stack[2].options
    /\ program = options.stack[2].options[<<"s">>].program
    /\ program # options.stack[1].options[<<"s">>].program


----------------------------------------------------------------------------
(* Properties of the option scopes' tokens, checked under Spec.            *)

\* the options some scope maps, with the token a lookup returns for each
Lookups ==
    {Options_getitem(options, key, EmptyDict) :
        key \in UNION {DOMAIN Scopes(options)[j].options : j \in 1..Len(Scopes(options))}}

\* C25: in every reachable state of the option scopes, the tokens of the
\* stacked scopes are strictly increasing from bottom to top, the current
\* scope's token is greater than every stacked token, and token_to_dict
\* holds exactly the tokens of the stacked scopes plus the current one;
\* hence pop_until_token called with a token returned by a lookup finds its
\* scope and does not raise, and no run ends in ValueError.
C25_Theorem ==
    /\ \A i, j \in 1..Len(options.stack) :
          i < j => options.stack[i].token < options.stack[j].token
    /\ \A i \in 1..Len(options.stack) : options.stack[i].token < options.token
    /\ options.token < options.next_token
    /\ options.token_to_dict = {Scopes(options)[j].token : j \in 1..Len(Scopes(options))}
    /\ \A hit \in Lookups :
          /\ Options_pop_until_token(options, hit.token).err = "none"
          /\ Options_pop_until_token(options, hit.token).O.token = hit.token
    /\ outcome # "ValueError"

\* def A(*, b=False, c=""); def fn(*, a:A=None, s=False) on ["-s", "-a", "-b"]:
\* the scope of -s (token 2) was popped when -a was invoked, and the program
\* of -b runs in scope 4 above the base and the scope of -a
C25_Witness ==
    /\ appeal = 10 /\ args = << <<"-", "s">>, <<"-", "a">>, <<"-", "b">> >>
    /\ argi = <<>> /\ outcome = "running"
    /\ Len(options.stack) = 2
    /\ options.stack[1].token = 1 /\ options.stack[2].token = 3 /\ options.token = 4
    /\ options.token_to_dict = {1, 3, 4}


----------------------------------------------------------------------------
(* Properties of the pending consume_argument, checked under Spec.         *)

\* the token loop holds a consume_argument that waits for a token
Pending == pc = "phase2" /\ op # None
\* the instruction a call frame will resume with
ResumesWith(frame) == programs[frame.program].opcodes[frame.ip + 1]
EndsWith(q, tail) ==
    Len(q) >= Len(tail) /\ SubSeq(q, Len(q) - Len(tail) + 1, Len(q)) = tail

\* C26: at most one consume_argument is pending: the only pending
\* instruction is the one in the op register, a consume_argument, and a
\* call frame that can resume holds an instruction pointer on a
\* consume_argument that is no longer pending.  When an option is invoked
\* while a consume_argument is pending, the instruction pointer is rewound
\* onto it and saved in the call frame and the op register is cleared
\* before the option's program starts; the tokens behind the option stay in
\* the input; when the option's program ends the saved registers come back
\* and the consume_argument is the next instruction, executed again; the
\* next positional token is then handed to the same place of the program.
C26_Theorem ==
    /\ [](Pending => op.op = "consume_argument")
    /\ [](\A k \in 1..Len(call_stack) :
             IpValid(programs, call_stack[k].program, call_stack[k].ip)
                => ResumesWith(call_stack[k]).op = "consume_argument")
    /\ [][(AtOption /\ ShortOption.found /\ Entered /\ op # None) =>
             /\ op' = None
             /\ Len(call_stack') = Len(call_stack) + 1
             /\ Last(call_stack') = [CharmProgramStackEntry(M) EXCEPT !.ip = ip - 1]
             /\ ResumesWith(Last(call_stack')) = op
             /\ EndsWith(argi', Tail(argi))]_vars
    /\ [][(pc = "phase1" /\ ~IpValid(programs, program, ip) /\ call_stack # <<>>) =>
             /\ program' = Last(call_stack).program /\ ip' = Last(call_stack).ip
             /\ call_stack' = Front(call_stack) /\ argi' = argi
             /\ IpValid(programs, program', ip') =>
                   programs[program'].opcodes[ip' + 1].op = "consume_argument"]_vars
    /\ [][(Fetching("consume_argument") /\ argi # <<>>) =>
             /\ pc' = "phase2" /\ op' = CurOp(M) /\ ip' = ip + 1
             /\ program' = program /\ argi' = argi]_vars
    /\ [][AtPositional =>
             /\ o' = StrVal(Head(argi)) /\ argi' = Tail(argi)
             /\ program' = program /\ ip' = ip /\ pc' = "phase1"]_vars
    /\ []((appeal = 1 /\ args = <<Token_1, Token_v, Token_2>> /\ Returned) =>
             Root.args_converters = <<StrVal(Token_1), StrVal(Token_2)>>)

\* def fn(a, b, c=1, *, v=False) on ["1", "-v", "2"]: -v was invoked while
\* the consume_argument of b was pending, and "2" went to b
C26_Witness ==
    /\ appeal = 1 /\ args = <<Token_1, Token_v, Token_2>> /\ Returned
    /\ Root.args_converters = <<StrVal(Token_1), StrVal(Token_2)>>
    /\ KwGet(Root.kwargs_converters, "v") # None


----------------------------------------------------------------------------
(* Properties of a positional token nobody waits for, checked under Spec.  *)

\* the next token is positional and no consume_argument is pending
AtUnwantedPositional ==
    /\ pc = "phase2" /\ argi # <<>>
    /\ is_positional_argument(M, Head(argi)) /\ op = None

\* C27: when a positional token is read while no consume_argument is
\* pending, the run pushes the token back, so that the input is what it was
\* before the token was read, and returns the root converter; nothing else
\* changes: no argument group, no converter, no option scope, no register.
C27_Theorem ==
    [][AtUnwantedPositional =>
          /\ argi' = argi
          /\ pc' = "done" /\ outcome' = "returned"
          /\ result' = converters[command_converter_key]
          /\ result' = Ref(command_converter)
          /\ UNCHANGED <<gheap, id_to_group, group, groups, heap, converters, options>>
          /\ UNCHANGED <<program, ip, call_stack, converter, o, op, force_positional,
                         root_force_positional, command_converter>>]_vars

\* def A(*, b=False, c=""); def fn(*, a:A=None, s=False) on ["-a", "x", "-b"]:
\* fn takes no positional argument, the run returned at "x" with "x" and
\* "-b" left in the input and the scope of -a still current
C27_Witness ==
    /\ appeal = 10 /\ args = << <<"-", "a">>, <<"x">>, <<"-", "b">> >>
    /\ pc = "done" /\ outcome = "returned" /\ argi = << <<"x">>, <<"-", "b">> >>
    /\ result = Ref(command_converter)
    /\ Len(options.stack) = 1 /\ <<"b">> \in DOMAIN options.options


----------------------------------------------------------------------------
(* Properties of the choice between positional and option, checked under   *)
(* Spec.                                                                   *)

OpargPending == op # None /\ op.op = "consume_argument" /\ op.is_oparg
StartsWithDash == startswith(Head(argi), <<"-">>)
\* the four cases in which the token is positional
PositionalCase ==
    \/ force_positional
    \/ ~StartsWithDash
    \/ Head(argi) = <<"-">>
    \/ OpargPending
\* the step takes the token as a value: it is stored in o for the pending
\* consume_argument, or pushed back for the caller when none is pending
StoredAsValue ==
    /\ o' = StrVal(Head(argi)) /\ argi' = Tail(argi)
    /\ pc' \in {"phase1", "exit"} /\ outcome' = "running"
    /\ call_stack' = call_stack /\ program' = program
HandledAsPositional ==
    \/ op # None /\ StoredAsValue
    \/ op = None /\ pc' = "done" /\ outcome' = "returned" /\ argi' = argi

\* C28: a token is handled as positional if and only if forced-positional
\* mode is active, or it does not start with a dash, or it is exactly "-",
\* or the pending consume_argument is an oparg.  A lone "-" is never looked
\* up as an option; and while an oparg is pending a token starting with a
\* dash, "--" included, is stored as the value, with no option lookup (no
\* program is entered, the option scopes stay) and without switching on
\* forced-positional mode.
C28_Theorem ==
    [][(pc = "phase2" /\ argi # <<>>) =>
          /\ PositionalCase <=> HandledAsPositional
          /\ Head(argi) = <<"-">> =>
                /\ HandledAsPositional
                /\ outcome' \notin {"AppealUsageError", "IndexError"}
          /\ (OpargPending /\ StartsWithDash) =>
                /\ StoredAsValue
                /\ options' = options
                /\ force_positional' = force_positional
                /\ root_force_positional' = root_force_positional]_vars

\* def fopt(s=""); def fn(p, *, f:fopt=None) on ["-f", "--", "-"]: "--" is
\* the value of -f, forced-positional mode is off, and "-" is the value of p
C28_Witness ==
    /\ appeal = 9 /\ args = << <<"-", "f">>, <<"-", "-">>, <<"-">> >> /\ Returned
    /\ ~force_positional /\ ~root_force_positional
    /\ Root.args_converters = <<StrVal(<<"-">>)>>
    /\ heap[KwGet(Root.kwargs_converters, "f").id].args_converters
          = <<StrVal(<<"-", "-">>)>>


----------------------------------------------------------------------------
(* Properties of the call frames, checked under Spec.                      *)

\* the six registers a call frame holds
Registers ==
    [ip |-> ip, program |-> program, converter |-> converter, o |-> o,
     group |-> group, groups |-> groups]

\* C29: entering an option's program saves the registers program,
\* instruction pointer (rewound onto a pending consume_argument),
\* converter, o, group and groups in a call frame on top of the call stack
\* and starts the program at its first instruction with converter, o and
\* group cleared and groups empty; the frames below the top are never
\* touched while the program runs; when the program ends (its instruction
\* pointer runs off its last instruction), the six registers
\* are exactly those of the top frame, which is removed, while the
\* converter-key table and the option scopes are left as the program made
\* them: no key ever leaves the table, and the return changes neither.
C29_Theorem ==
    /\ [][(AtOption /\ ShortOption.found /\ Entered) =>
             /\ call_stack' = Append(call_stack,
                   [Registers EXCEPT !.ip = IF op # None THEN ip - 1 ELSE ip])
             /\ program' = ShortOption.program /\ ip' = 0
             /\ converter' = None /\ o' = None /\ group' = 0 /\ groups' = <<>>]_vars
    /\ [][\/ call_stack' = call_stack
          \/ call_stack' = <<>>
          \/ Front(call_stack') = call_stack /\ call_stack' # <<>>
          \/ call_stack # <<>> /\ call_stack' = Front(call_stack)]_vars
    /\ [][(pc = "phase1" /\ ~IpValid(programs, program, ip) /\ call_stack # <<>>) =>
             /\ call_stack' = Front(call_stack)
             /\ Registers' = Last(call_stack)
             /\ converters' = converters /\ options' = options
             /\ heap' = heap /\ gheap' = gheap /\ argi' = argi]_vars
    /\ [][pc' = "phase1" /\ stage' = stage =>
             DOMAIN converters \subseteq DOMAIN converters']_vars

\* def A(*, b=False); def fn(p, *, a:A=None) on ["-a", "p"]: the program of
\* -a ended, the registers are those of the root program again, with the
\* group of p in the group register, and the converter of -a and the scope
\* in which it mapped -b are still there
C29_Witness ==
    /\ appeal = 4 /\ args = << <<"-", "a">>, <<"p">> >> /\ argi = << <<"p">> >>
    /\ pc = "phase2" /\ op # None /\ call_stack = <<>>
    /\ program = Scopes(options)[1].options[<<"a">>].program - 1
    /\ group # 0 /\ ~gheap[group].optional /\ Len(groups) = 1
    /\ converter = Ref(command_converter)
    /\ Cardinality(DOMAIN converters) = 2
    /\ Len(options.stack) = 1 /\ <<"b">> \in DOMAIN options.options


----------------------------------------------------------------------------
(* Properties of the discretionary converters of a run, checked under Spec. *)

Listed(h, p) ==
    {h[p].args_converters[k].id :
        k \in {j \in 1..Len(h[p].args_converters) : h[p].args_converters[j].t = "conv"}}

\* the converter itself holds a string value or an option
Received(h, c) ==
    \/ \E k \in 1..Len(h[c].args_converters) : h[c].args_converters[k].t = "str"
    \/ h[c].kwargs_converters # <<>>

\* the converter, or one of the converters below it, holds something
RECURSIVE ReceivedBelow(_, _, _)
ReceivedBelow(h, c, depth) ==
    \/ Received(h, c)
    \/ /\ depth > 0
       /\ \E d \in Listed(h, c) \cup Queued(h, c) : ReceivedBelow(h, d, depth - 1)

Laden(h, c) == ReceivedBelow(h, c, Len(h))

\* append_to_args is about to hand the converter created for its parameter,
\* held in o, to the converter in the converter register
Appending ==
    /\ Fetching("append_to_args") /\ o.t = "conv" /\ converter.t = "conv"
    /\ heap[o.id].name = CurOp(M).parameter
    /\ Len(heap') = Len(heap) /\ outcome' = "running"

\* converter c left the queue of p in this step
Promoted(p, c) == c \in Queued(heap, p) /\ c \notin Queued(heap', p)

----------------------------------------------------------------------------
(* Properties of the multi-invocation option, checked under Spec on the   *)
(* application Fn_multi.                                                   *)

MultiOptions == {c \in 1..Len(heap) : heap[c].cls = "MultiOption"}

\* the value each invocation of -m on the command line is given: the token
\* after "-m", or what follows the "=" of "-m=..."
RECURSIVE InvocationsOf(_)
InvocationsOf(tokens) ==
    IF tokens = <<>> THEN <<>>
    ELSE IF Head(tokens) = <<"-", "m">>
    THEN IF Len(tokens) = 1 THEN << <<>> >>
         ELSE <<tokens[2]>> \o InvocationsOf(SubSeq(tokens, 3, Len(tokens)))
    ELSE IF Len(Head(tokens)) > 3 /\ SubSeq(Head(tokens), 1, 3) = <<"-", "m", "=">>
    THEN <<SubSeq(Head(tokens), 4, Len(Head(tokens)))>> \o InvocationsOf(Tail(tokens))
    ELSE InvocationsOf(Tail(tokens))

\* C31: the first invocation of a multi-invocation option creates its
\* converter (its key is not in the converter table yet), every later one
\* finds the key, creates nothing and flushes the converter: the snapshot
\* taken holds what the converter had gathered and the converter is empty
\* afterwards; when a run in which -m was invoked n >= 1 times has returned,
\* there is one such converter and its conversion goes through exactly n
\* snapshots, the k-th holding the one value of the k-th invocation and
\* nothing else.
C31_Theorem ==
    /\ [][(Fetching("create_converter") /\ CurOp(M).parameter.cls = "MultiOption") =>
             /\ CurOp(M).key \notin DOMAIN converters
             /\ MultiOptions = {}
             /\ heap'[Len(heap')].multi_converters = <<>>]_vars
    /\ [][(Fetching("flush_multioption") /\ outcome' = "running") =>
             /\ o.t = "conv" /\ MultiOptions = {o.id} /\ Len(heap') = Len(heap)
             /\ heap'[o.id].multi_converters =
                   Append(heap[o.id].multi_converters,
                          [args |-> heap[o.id].args_converters,
                           kwargs |-> heap[o.id].kwargs_converters])
             /\ heap'[o.id].args_converters = <<>>
             /\ heap'[o.id].kwargs_converters = <<>>]_vars
    /\ []((appeal = 6 /\ Returned /\ InvocationsOf(args) # <<>>) =>
             /\ Cardinality(MultiOptions) = 1
             /\ \A c \in MultiOptions :
                   MultiOption_convert(heap, c) =
                      [k \in 1..Len(InvocationsOf(args)) |->
                          [args |-> <<StrVal(InvocationsOf(args)[k])>>, kwargs |-> <<>>]])

\* ["-m=2", "-m", "1"] returned: -m was invoked twice, the second invocation
\* flushed the value of the first, and the conversion replays "2" and then "1"
C31_Witness ==
    /\ appeal = 6 /\ args = << <<"-", "m", "=", "2">>, <<"-", "m">>, <<"1">> >>
    /\ Returned
    /\ \E c \in MultiOptions :
          /\ heap[c].multi_converters = <<[args |-> <<StrVal(<<"2">>)>>, kwargs |-> <<>>]>>
          /\ heap[c].args_converters = <<StrVal(<<"1">>)>>
          /\ Len(MultiOption_convert(heap, c)) = 2


----------------------------------------------------------------------------
(* Properties of the programs emitted, checked under SpecCompile.           *)

\* the instructions of the program the compiler would emit now
Emitted == compiler_finalize(compiler).program.opcodes

\* the programs of def A(*, o=False); def B(*, o=False); def fn(a, b:A, c:B)
DupPrograms == charm_compile(Globals0, Fn_dup).G.programs

\* instructions i < j of P map the same option string in the same group
MappedTwice(P, i, j) ==
    /\ i < j /\ P[i].op = "map_option" /\ P[j].op = "map_option"
    /\ P[i].option = P[j].option /\ P[i].group = P[j].group

Separated(P) ==
    \A i \in 1..Len(P), j \in 1..Len(P) :
        MappedTwice(P, i, j) => \E k \in (i + 1)..(j - 1) : P[k].op = "consume_argument"

\* C32: in every program the compiler emits, two map_option instructions
\* for the same option string and the same argument group have a
\* consume_argument between them, whatever the order of the declarations,
\* consume_argument emissions and new groups that led to the program.
C32_Theorem ==
    /\ compiler # None /\ compiler.error = "none" => Separated(Emitted)
    /\ \A id \in DOMAIN DupPrograms : Separated(DupPrograms[id].opcodes)

\* a consume_argument, then -o declared twice with nothing between the
\* declarations, then another step: the program maps -o before the
\* consume_argument and again after it
C32_Witness ==
    /\ Len(log) = 4 /\ log[1].ev = "consume" /\ DeclaredTwice(2, 3)
    /\ compiler.error = "none"
    /\ \E i \in 1..Len(Emitted), j \in 1..Len(Emitted) : MappedTwice(Emitted, i, j)
    /\ \E id \in DOMAIN DupPrograms :
          \E i \in 1..Len(DupPrograms[id].opcodes), j \in 1..Len(DupPrograms[id].opcodes) :
             MappedTwice(DupPrograms[id].opcodes, i, j)


----------------------------------------------------------------------------
(* Properties of the argument counts finalize computes, checked under      *)
(* SpecFinalize.                                                           *)

Finalized == fin # None /\ fin.error = "none"

\* the positions of the instructions of p with opcode name
Positions(p, name) == {j \in 1..Len(p) : p[j].op = name}

\* the position of the latest set_group before position j of p, 0 for none
LatestSetGroup(p, j) ==
    IF \E k \in 1..(j - 1) : p[k].op = "set_group"
    THEN CHOOSE k \in 1..(j - 1) :
            p[k].op = "set_group" /\ \A l \in (k + 1)..(j - 1) : p[l].op # "set_group"
    ELSE 0

\* the consume_argument instructions counted by the set_group at position k
ConsumesOf(p, k) == {j \in Positions(p, "consume_argument") : LatestSetGroup(p, j) = k}

\* the consume_argument instructions whose latest set_group is not optional
RequiredConsumes(p) ==
    {j \in Positions(p, "consume_argument") :
        LatestSetGroup(p, j) = 0 \/ ~p[LatestSetGroup(p, j)].optional}

\* the k-th set_group of p, by position
NthPosition(p, name, n) ==
    CHOOSE j \in Positions(p, name) :
        Cardinality({k \in Positions(p, name) : k <= j}) = n

\* C33 as stated: after finalize the whole-program minimum is the number of
\* consume_argument instructions of the program, and the maximum too unless
\* a repeating group made it unbounded.
C33_Original ==
    Finalized =>
        /\ fin.total.minimum = Cardinality(Positions(draft, "consume_argument"))
        /\ Repeats(draft) \/
              fin.total.maximum = Cardinality(Positions(draft, "consume_argument"))

\* C33: finalize counts every consume_argument into the whole-program
\* maximum and into the minimum and maximum of the group of the latest
\* set_group, and into the whole-program minimum only when that set_group
\* is not optional (or there is none): afterwards the whole-program minimum
\* is the number of consume_argument instructions under a set_group that is
\* not optional, the maximum the number of all of them unless a repeating
\* group made it math.inf, and each set_group's template holds the number
\* of consume_argument instructions between it and the next set_group as
\* minimum and as maximum.
C33_Theorem ==
    Finalized =>
        /\ fin.total.minimum = Cardinality(RequiredConsumes(draft))
        /\ fin.total.maximum =
              IF Repeats(draft) THEN Inf
              ELSE Cardinality(Positions(draft, "consume_argument"))
        /\ Cardinality(Positions(fin.p, "set_group"))
              = Cardinality(Positions(draft, "set_group"))
        /\ \A n \in 1..Cardinality(Positions(draft, "set_group")) :
              LET g == fin.p[NthPosition(fin.p, "set_group", n)].group
                  c == Cardinality(ConsumesOf(draft, NthPosition(draft, "set_group", n)))
              IN g.minimum = c /\ g.maximum = c

\* a required consume_argument, an optional set_group and a consume_argument
\* under it: minimum 1, maximum 2, and the optional group counts 1
C33_Witness ==
    /\ Finalized /\ Len(draft) = 3
    /\ draft[1].op = "consume_argument"
    /\ draft[2].op = "set_group" /\ draft[2].optional /\ ~draft[2].repeating
    /\ draft[3].op = "consume_argument"
    /\ fin.total.minimum = 1 /\ fin.total.maximum = 2
    /\ fin.p[2].group.minimum = 1 /\ fin.p[2].group.maximum = 1


----------------------------------------------------------------------------
(* Properties of the instructions finalize leaves, checked under           *)
(* SpecFinalize.                                                           *)

PseudoOps == {"label", "jump_to_label", "branch_on_o_to_label", "no_op", "comment"}

\* the list finalize starts from: the draft and the End it appends
Knitted == draft \o <<I_end(1, "fn")>>

\* the 0-based index in the finalized list of the first instruction that
\* stood behind label id in the list finalize started from and is still there
FirstSurvivor(f, p, id) ==
    LET at == CHOOSE j \in 1..Len(p) : p[j] = I_label(id)
        behind == {k \in 1..Len(f.p) : f.origin[k] > at}
    IN (CHOOSE k \in behind : \A l \in behind : k <= l) - 1

\* the programs compiled for the applications
CompiledPrograms ==
    UNION {{Appeal(i).programs[id] : id \in DOMAIN Appeal(i).programs} : i \in DOMAIN Alphabet}

----------------------------------------------------------------------------
(* The loads finalize removes, checked under SpecLoads: the programs are   *)
(* compiled with those loads left in place and marked, and a run executes  *)
(* them.  A marked load that changes no register when it executes can be   *)
(* removed without changing the run.                                       *)

\* the instruction about to execute is a load finalize would have removed
AtRedundant(name) == Fetching(name) /\ IsRedundant(CurOp(M))

\* the 0-based indices below k of the instructions of P that set the
\* register the load at k sets
SettersBefore(P, k) ==
    LET sets == IF P[k + 1].op = "load_converter" THEN {"load_converter"}
                ELSE {"load_o", "create_converter", "consume_argument"}
    IN {s \in 0..(k - 1) : P[s + 1].op \in sets}

\* the addresses the jumps and branches of P go to
JumpAddresses(P) ==
    {P[j].address : j \in {i \in 1..Len(P) : P[i].op \in {"jump", "branch_on_o"}}}

\* the load at k repeats the latest instruction before it that set its
\* register, with no label in between
RepeatsSetter(P, k) ==
    /\ SettersBefore(P, k) # {}
    /\ LET s == CHOOSE s \in SettersBefore(P, k) : \A t \in SettersBefore(P, k) : t <= s
       IN /\ "key" \in DOMAIN P[s + 1] /\ P[s + 1].key = P[k + 1].key
          /\ \A address \in JumpAddresses(P) : ~(s < address /\ address <= k)

\* C35: a load finalize removes changes nothing when it executes: the
\* converter register already holds the converter a removed load_converter
\* would load, and the o register the one a removed load_o would load; and
\* in every program a removed load repeats the latest instruction before it
\* that set its register, with no jump landing between the two (the known
\* register is forgotten at a label).
C35_Theorem ==
    /\ AtRedundant("load_converter") => converter = DictGet(converters, CurOp(M).key)
    /\ AtRedundant("load_o") => o = DictGet(converters, CurOp(M).key)
    /\ \A id \in DOMAIN programs : \A k \in 0..(Len(programs[id].opcodes) - 1) :
          IsRedundant(programs[id].opcodes[k + 1]) => RepeatsSetter(programs[id].opcodes, k)

\* a removed load_converter about to execute
C35_Witness ==
    /\ AtRedundant("load_converter")
    /\ converter # None

----------------------------------------------------------------------------
(* The counters of the live groups during a run, checked under Spec.       *)

\* phase two is about to store the token at the head of argi for the
\* pending consume_argument
Storing ==
    /\ pc = "phase2" /\ argi # <<>> /\ is_positional_argument(M, Head(argi)) /\ op # None

\* C36: executing a set_group makes a new copy of the instruction's group,
\* with count 0 and laden false, the active group, and leaves the earlier
\* copies as they are; the count of a live group is never negative; within
\* a run, a step changes the count of a live group only when phase two
\* stores a token for the pending consume_argument, and then the count of
\* the active group, and of no other, grows by one.
C36_Theorem ==
    /\ [](\A j \in DOMAIN gheap : gheap[j].count >= 0)
    /\ [][Fetching("set_group") =>
             /\ group' = Len(gheap) + 1 /\ Len(gheap') = Len(gheap) + 1
             /\ gheap'[group'].id = CurOp(M).group.id
             /\ gheap'[group'].count = 0 /\ ~gheap'[group'].laden
             /\ \A j \in DOMAIN gheap : gheap'[j] = gheap[j]]_vars
    /\ [][stage' = stage =>
             /\ DOMAIN gheap \subseteq DOMAIN gheap'
             /\ \A j \in DOMAIN gheap :
                   gheap'[j].count = gheap[j].count + (IF Storing /\ group = j THEN 1 ELSE 0)]_vars

\* the set_group of a loop is about to execute again: the copy made by its
\* earlier execution is the active group and has counted a token
C36_Witness ==
    /\ Fetching("set_group")
    /\ group # 0 /\ gheap[group].id = CurOp(M).group.id /\ gheap[group].count = 1

----------------------------------------------------------------------------
(* The laden flag of the live groups, checked under Spec.                  *)

\* the live group an option was mapped in
LadenGroup == id_to_group[ShortOption.group_id]

\* the active group is optional, had an option invoked in it and stored no
\* token, and needs at least one
LadenAndEmpty ==
    /\ group # 0 /\ gheap[group].optional /\ gheap[group].laden
    /\ gheap[group].count = 0 /\ gheap[group].minimum >= 1

\* C37: when a token names an option the scopes map, the group the option
\* was mapped in has a live copy; the step that enters the option's program
\* sets laden on that copy, changes nothing else of any live group and no
\* count; a laden optional group with count 0 and minimum >= 1 is not
\* satisfied, and when the loop ends with such a group active the run ends
\* with a usage error.
C37_Theorem ==
    /\ []((AtOption /\ ShortOption.found) => ShortOption.group_id \in DOMAIN id_to_group)
    /\ [][(AtOption /\ ShortOption.found /\ Entered) =>
             /\ gheap' = [gheap EXCEPT ![LadenGroup].laden = TRUE]
             /\ id_to_group' = id_to_group]_vars
    /\ [](LadenAndEmpty => ~satisfied(gheap[group]))
    /\ [][(pc = "exit" /\ LadenAndEmpty) => outcome' = "AppealUsageError"]_vars

\* the run ended with a usage error on an optional group that stored no
\* token and in which an option was invoked
C37_Witness ==
    /\ Finished /\ outcome = "AppealUsageError" /\ LadenAndEmpty

----------------------------------------------------------------------------
(* Properties of add_to_kwargs on a slot that is taken, checked under Spec. *)

\* what the slot of the add_to_kwargs about to execute holds
Existing == KwGet(heap[converter.id].kwargs_converters, CurOp(M).name)

\* an add_to_kwargs is about to execute on a slot that holds a value, and
\* the value is not the MultiOption in o
SlotTaken ==
    /\ Fetching("add_to_kwargs") /\ converter.t = "conv"
    /\ Existing # None
    /\ ~(Existing = o /\ Existing.t = "conv" /\ heap[Existing.id].cls = "MultiOption")

\* C38: an add_to_kwargs on a slot that already holds a converter or a
\* value, other than the MultiOption in o, raises a usage error and leaves
\* the slot as it is; an add_to_kwargs that finds the MultiOption in o in the
\* slot changes nothing and raises nothing.
C38_Original ==
    [][SlotTaken =>
          /\ outcome' = "AppealUsageError"
          /\ message'.t = "specified more than once."
          /\ heap' = heap]_vars

\* -s= stored the empty string in the slot of s and -s=x is about to store
\* "x" in it
C38_Witness ==
    /\ appeal = 14 /\ args = <<<<"-", "s", "=">>, <<"-", "s", "=", "x">>>>
    /\ SlotTaken /\ Existing = StrVal(<<>>) /\ o = StrVal(<<"x">>)

----------------------------------------------------------------------------
(* Properties of the call stack, checked under Spec.                       *)

\* the ids of the programs that map_option instructions hand to options
OptionPrograms ==
    UNION {{programs[id].opcodes[k].program :
              k \in {j \in 1..Len(programs[id].opcodes) :
                       programs[id].opcodes[j].op = "map_option"}} : id \in DOMAIN programs}

\* the consume_argument instructions of program id
Consumes(id) ==
    {programs[id].opcodes[k] :
       k \in {j \in 1..Len(programs[id].opcodes) :
                programs[id].opcodes[j].op = "consume_argument"}}

\* C39: the call stack never holds more than one frame.  Every
\* consume_argument of the program of an option is an oparg; while a frame
\* is on the call stack and the token loop reads a token, the token is
\* taken as a positional argument, whatever it looks like; and the program
\* of an option is entered only with the call stack empty, the op register
\* holding nothing or a consume_argument that is no oparg.
C39_Theorem ==
    /\ [](Len(call_stack) <= 1)
    /\ [](\A id \in OptionPrograms : \A c \in Consumes(id) : c.is_oparg)
    /\ []((call_stack # <<>> /\ pc = "phase2" /\ argi # <<>>) =>
             (op # None /\ op.is_oparg /\ is_positional_argument(M, Head(argi))))
    /\ [][Entered =>
             /\ call_stack = <<>> /\ Len(call_stack') = 1
             /\ (op # None => (op.op = "consume_argument" /\ ~op.is_oparg))]_vars

\* def fopt(s=""); def fn(x="", *, f:fopt=None) on ["-f", "-f"]: the program
\* of -f waits at its consume_argument and the second "-f" is its oparg
C39_Witness ==
    /\ appeal = 3 /\ Len(call_stack) = 1 /\ pc = "phase2"
    /\ argi = <<<<"-", "f">>>> /\ op # None /\ op.is_oparg

----------------------------------------------------------------------------
(* The assert statements of CharmInterpreter.__call__, checked under       *)
(* SpecSemantics.                                                          *)

\* the token loop is about to handle "--"
AtDoubleDash ==
    /\ pc = "phase2" /\ argi # <<>> /\ semantics.option_space_oparg
    /\ ~is_positional_argument(M, Head(argi)) /\ Head(argi) = <<"-", "-">>

\* minimum and maximum of the program of the short option about to be read
ShortTotal == programs[ShortOption.program].total

\* a short option with a remainder is about to reach the last branch of the
\* remainder handling: it takes at most one value, and the remainder is not
\* taken as its value
AtLastBranch ==
    /\ AtShortWithRemainder
    /\ ShortTotal.maximum = 1
    /\ ~(semantics.short_option_concatenated_oparg /\ ShortTotal.minimum = 0)

\* once "--" is handled force_positional is on for the rest of the command
\* line, the command's interpreter included, so "--" is handled once
DoubleDashStays ==
    /\ [][AtDoubleDash => force_positional' /\ root_force_positional']_vars
    /\ [][root_force_positional => root_force_positional']_vars
    /\ [][(force_positional /\ stage' = stage) => force_positional']_vars

\* C40: under every setting of the parsing semantics the assertions of the
\* interpreter hold: "--" is handled with force_positional off; after phase
\* one the pending instruction is none or a consume_argument; a group is
\* active when the loop has ended; and a short option with a remainder that
\* reaches the last branch of the remainder handling takes exactly one
\* required value.
C40_Original ==
    /\ AtDoubleDash => (~force_positional /\ ~root_force_positional)
    /\ pc = "phase2" => (op = None \/ op.op = "consume_argument")
    /\ pc = "exit" => unwind(M).group # 0
    /\ AtLastBranch => (ShortTotal.minimum = 1 /\ ShortTotal.maximum = 1)

\* def fopt(s=""); def fn(x="", *, f:fopt=None) with
\* short_option_concatenated_oparg off, on ["-fhi"]: -f takes one optional
\* value and reaches the last branch
C40_Witness ==
    /\ appeal = 3 /\ args = <<Token_fhi>> /\ ~semantics.short_option_concatenated_oparg
    /\ AtLastBranch /\ ShortTotal.minimum = 0

====
